---- MODULE Spec2Model ----
(***************************************************************************)
(* Model of the NFL game predictor's data and feature pipeline:            *)
(*   load_data_with_nflfastr (merge_with_spreadspoke) -> preprocess ->     *)
(*   encode_features (add_rolling_features, add_rolling_epa_features),     *)
(*   and the prediction queries of predict.py.                             *)
(* In the feature pipeline a table is a sequence of records (one record    *)
(* per DataFrame row).  A nullable cell is <<>> (NaN) or <<v>>.  Means are *)
(* exact rationals, stored as integers scaled by Scale.                    *)
(***************************************************************************)
EXTENDS Integers, Sequences, FiniteSets, TLC

VARIABLES
    df,        \* the game table returned by load_data_with_nflfastr
    window,    \* the window the aggregators are called with
    df_rolling, \* the table add_rolling_features returns inside encode_features
    rolled,    \* df_processed: the table encode_features returns
    y,         \* the label vector encode_features returns
    pred,      \* what predict_current_week computed, one entry per game of the week
    spreadspoke_df,  \* the primary table handed to merge_with_spreadspoke
    nflfastr_stats,  \* the aggregated secondary table handed to it (rewritten in place)
    merged,    \* None, or the outcome of the last merge_with_spreadspoke call
    pbp_data,  \* the play-by-play rows the secondary source holds
    team_stats, \* None, or the table aggregate_team_stats returned
    loaded,    \* None, or the outcome of the last load_data_with_nflfastr call
    calls,     \* None, or the outputs of two add_rolling_features calls in a row
    season_df, \* the schedule_season column of the table handed to time_based_split
    split,     \* None, or the outcome of the last time_based_split call
    weather,   \* None, or the weather flags of one game in training and in a query
    main,      \* main() after encode_features: position, tables, what train_model returned
    client     \* the SleeperClient: its cache, the clock, and the last _get_cached call

pipeline == <<df, window, df_rolling, rolled, y, pred>>
merging == <<spreadspoke_df, nflfastr_stats, merged>>
loading == <<pbp_data, team_stats, loaded>>
splitting == <<season_df, split>>
later == <<weather, main, client>>
vars == <<df, window, df_rolling, rolled, y, pred, spreadspoke_df, nflfastr_stats, merged,
          pbp_data, team_stats, loaded, calls, season_df, split, weather, main, client>>

----------------------------------------------------------------------------
(* Bounds and program constants *)

MaxGames == 3

ROLLING_WINDOW == 3
MODERN_START_YEAR == 2002

Windows == 1..ROLLING_WINDOW

RECURSIVE LcmUpTo(_)
Gcd(a, b) == CHOOSE g \in 1..a : a % g = 0 /\ b % g = 0 /\
                 \A h \in 1..a : (a % h = 0 /\ b % h = 0) => h <= g
LcmUpTo(n) == IF n <= 1 THEN 1 ELSE (LcmUpTo(n - 1) * n) \div Gcd(LcmUpTo(n - 1), n)

\* every mean over 1..ROLLING_WINDOW values, and 0.5, is an integer multiple of 1/Scale
Scale == 2 * LcmUpTo(ROLLING_WINDOW)

----------------------------------------------------------------------------
(* Nullable values and float columns *)

NaN == <<>>
V(x) == <<x>>
IsNa(c) == c = NaN
NotNa(c) == c # NaN
Get(c) == c[1]

\* Series.fillna(v)
FillNa(c, v) == IF IsNa(c) THEN V(v) ELSE c

\* a > b on two float cells: any comparison with NaN is False
Gt(a, b) == NotNa(a) /\ NotNa(b) /\ Get(a) > Get(b)

\* a - b on two float cells: NaN propagates
Sub(a, b) == IF IsNa(a) \/ IsNa(b) THEN NaN ELSE V(Get(a) - Get(b))

----------------------------------------------------------------------------
(* Dates: the CSV holds schedule_date as text month/day/year; read_csv     *)
(* leaves it a string, a sequence of character codes here.                 *)

Slash == 47
Zero == 48

RECURSIVE Digits(_)
Digits(n) == IF n < 10 THEN <<Zero + n>> ELSE Digits(n \div 10) \o <<Zero + (n % 10)>>

DateText(m, d, yr) == Digits(m) \o <<Slash>> \o Digits(d) \o <<Slash>> \o Digits(yr)

\* Python str comparison: lexicographic by code point, a proper prefix is smaller
RECURSIVE StrLess(_, _)
StrLess(s, t) ==
    IF t = <<>> THEN FALSE
    ELSE IF s = <<>> THEN TRUE
    ELSE IF Head(s) # Head(t) THEN Head(s) < Head(t)
    ELSE StrLess(Tail(s), Tail(t))

\* pd.to_datetime on month/day/year text: the three numeric fields
RECURSIVE ParseField(_, _)
ParseField(s, acc) ==
    IF s = <<>> \/ Head(s) = Slash THEN acc
    ELSE ParseField(Tail(s), acc * 10 + (Head(s) - Zero))

RECURSIVE AfterSlash(_)
AfterSlash(s) == IF s = <<>> THEN <<>> ELSE IF Head(s) = Slash THEN Tail(s) ELSE AfterSlash(Tail(s))

ToDatetime(s) ==
    [m |-> ParseField(s, 0),
     d |-> ParseField(AfterSlash(s), 0),
     yr |-> ParseField(AfterSlash(AfterSlash(s)), 0)]

IsLeap(yr) == (yr % 4 = 0 /\ yr % 100 # 0) \/ yr % 400 = 0
DaysBeforeMonth(m, yr) ==
    LET cum == <<0, 31, 59, 90, 120, 151, 181, 212, 243, 273, 304, 334>>
    IN cum[m] + (IF m > 2 /\ IsLeap(yr) THEN 1 ELSE 0)

\* ordinal of a timestamp (days since 1 Jan of year 1), as Timestamp.toordinal
DayNumber(t) ==
    LET p == t.yr - 1
    IN 365 * p + (p \div 4) - (p \div 100) + (p \div 400) + DaysBeforeMonth(t.m, t.yr) + t.d

\* datetime comparison
DateLess(a, b) == DayNumber(a) < DayNumber(b)

----------------------------------------------------------------------------
(* Table helpers *)

Max(a, b) == IF a > b THEN a ELSE b

RECURSIVE SumOver(_, _)
SumOver(s, I) == IF I = {} THEN 0 ELSE LET i == CHOOSE i \in I : TRUE IN Get(s[i]) + SumOver(s, I \ {i})

\* a schedule_date cell: text as loaded, a timestamp after pd.to_datetime
TextCell(s) == [dtype |-> "object", v |-> s]
TimeCell(t) == [dtype |-> "datetime64", v |-> t]

\* ordering of two cells of the schedule_date column, by the column's dtype
CellLess(a, b) == IF a.dtype = "datetime64" THEN DateLess(a.v, b.v) ELSE StrLess(a.v, b.v)

\* df.sort_values("schedule_date"): ascending by the column's own ordering
InsertRow(r, s) ==
    LET k == Cardinality({i \in 1..Len(s) : ~CellLess(r.schedule_date, s[i].schedule_date)})
    IN SubSeq(s, 1, k) \o <<r>> \o SubSeq(s, k + 1, Len(s))

RECURSIVE SortValues(_)
SortValues(t) ==
    IF t = <<>> THEN <<>>
    ELSE InsertRow(t[Len(t)], SortValues(SubSeq(t, 1, Len(t) - 1)))

\* df[mask]
Filter(t, Keep(_)) ==
    LET F[i \in 0..Len(t)] ==
            IF i = 0 THEN <<>> ELSE IF Keep(t[i]) THEN Append(F[i - 1], t[i]) ELSE F[i - 1]
    IN F[Len(t)]

\* pd.concat([df["team_home"], df["team_away"]]).unique(): first appearances
TeamsOf(t) ==
    LET col == [i \in 1..(2 * Len(t)) |->
                    IF i <= Len(t) THEN t[i].team_home ELSE t[i - Len(t)].team_away]
        F[i \in 0..Len(col)] ==
            IF i = 0 THEN <<>>
            ELSE IF \E j \in 1..(i - 1) : col[j] = col[i] THEN F[i - 1] ELSE Append(F[i - 1], col[i])
    IN F[Len(col)]

\* positions of the rows selected by team_mask, in table order
TeamRows(t, team) ==
    LET F[i \in 0..Len(t)] ==
            IF i = 0 THEN <<>>
            ELSE IF t[i].team_home = team \/ t[i].team_away = team
                 THEN Append(F[i - 1], i) ELSE F[i - 1]
    IN F[Len(t)]

\* Series.shift(p)
Shift(s, p) == [j \in 1..Len(s) |-> IF j <= p THEN NaN ELSE s[j - p]]

\* Series.rolling(w, min_periods=1).mean(): NaN cells are skipped, one value suffices
RollingMean(s, w) ==
    [j \in 1..Len(s) |->
        LET present == {i \in Max(1, j - w + 1)..j : NotNa(s[i])}
        IN IF present = {} THEN NaN
           ELSE V((SumOver(s, present) * Scale) \div Cardinality(present))]

\* Series.diff().dt.days on a series of timestamps
DiffDays(dates) ==
    [j \in 1..Len(dates) |->
        IF j = 1 THEN NaN ELSE V(DayNumber(dates[j].v) - DayNumber(dates[j - 1].v))]

----------------------------------------------------------------------------
(* preprocess.py *)

\* home_team_won = (score_home > score_away).astype(int)
preprocess(t) ==
    [i \in 1..Len(t) |->
        t[i] @@ [home_team_won |-> IF Gt(t[i].score_home, t[i].score_away) THEN 1 ELSE 0]]

----------------------------------------------------------------------------
(* features.py: add_rolling_features *)

ToDatetimeCell(c) == IF c.dtype = "datetime64" THEN c ELSE TimeCell(ToDatetime(c.v))

PosIn(idx, i) == CHOOSE j \in 1..Len(idx) : idx[j] = i

\* the columns created as NaN before the per-team pass
InitRollingCols(t) ==
    [i \in 1..Len(t) |->
        [home_avg_points |-> NaN, away_avg_points |-> NaN,
         home_avg_allowed |-> NaN, away_avg_allowed |-> NaN,
         home_win_pct |-> NaN, away_win_pct |-> NaN,
         home_rest_days |-> NaN, away_rest_days |-> NaN,
         home_momentum |-> NaN, away_momentum |-> NaN] @@ t[i]]

\* the older block of the momentum comparison
OlderPoints(s, w) == RollingMean(Shift(s, w + 1), w)

\* the iteration with the write-back under team_mask alone: both sides of
\* every row of the team receive the team's values
RollingIteration_TeamMask(t, team, w) ==
    LET idx == TeamRows(t, team)
        n == Len(idx)
        points_scored == [j \in 1..n |->
            IF t[idx[j]].team_home = team THEN t[idx[j]].score_home ELSE t[idx[j]].score_away]
        points_allowed == [j \in 1..n |->
            IF t[idx[j]].team_home = team THEN t[idx[j]].score_away ELSE t[idx[j]].score_home]
        won == [j \in 1..n |->
            LET r == t[idx[j]]
            IN V(IF (r.team_home = team /\ Gt(r.score_home, r.score_away))
                    \/ (r.team_away = team /\ Gt(r.score_away, r.score_home))
                 THEN 1 ELSE 0)]
        team_dates == [j \in 1..n |-> t[idx[j]].schedule_date]
        rest_days == DiffDays(team_dates)
        rolling_avg_points == RollingMean(Shift(points_scored, 1), w)
        rolling_avg_allowed == RollingMean(Shift(points_allowed, 1), w)
        rolling_win_pct == RollingMean(Shift(won, 1), w)
        recent_points == RollingMean(Shift(points_scored, 1), w)
        older_points == OlderPoints(points_scored, w)
        momentum == [j \in 1..n |-> Sub(recent_points[j], older_points[j])]
        WriteHome(r, j) ==
            [r EXCEPT !.home_avg_points = rolling_avg_points[j],
                      !.home_avg_allowed = rolling_avg_allowed[j],
                      !.home_win_pct = rolling_win_pct[j],
                      !.home_rest_days = rest_days[j],
                      !.home_momentum = momentum[j]]
        WriteAway(r, j) ==
            [r EXCEPT !.away_avg_points = rolling_avg_points[j],
                      !.away_avg_allowed = rolling_avg_allowed[j],
                      !.away_win_pct = rolling_win_pct[j],
                      !.away_rest_days = rest_days[j],
                      !.away_momentum = momentum[j]]
    IN [i \in 1..Len(t) |->
          IF t[i].team_home = team \/ t[i].team_away = team
          THEN WriteAway(WriteHome(t[i], PosIn(idx, i)), PosIn(idx, i)) ELSE t[i]]

\* one iteration of the per-team loop: the team's series and the write-back
RollingIteration(t, team, w) ==
    LET idx == TeamRows(t, team)
        n == Len(idx)
        points_scored == [j \in 1..n |->
            IF t[idx[j]].team_home = team THEN t[idx[j]].score_home ELSE t[idx[j]].score_away]
        points_allowed == [j \in 1..n |->
            IF t[idx[j]].team_home = team THEN t[idx[j]].score_away ELSE t[idx[j]].score_home]
        won == [j \in 1..n |->
            LET r == t[idx[j]]
            IN V(IF (r.team_home = team /\ Gt(r.score_home, r.score_away))
                    \/ (r.team_away = team /\ Gt(r.score_away, r.score_home))
                 THEN 1 ELSE 0)]
        team_dates == [j \in 1..n |-> t[idx[j]].schedule_date]
        rest_days == DiffDays(team_dates)
        rolling_avg_points == RollingMean(Shift(points_scored, 1), w)
        rolling_avg_allowed == RollingMean(Shift(points_allowed, 1), w)
        rolling_win_pct == RollingMean(Shift(won, 1), w)
        recent_points == RollingMean(Shift(points_scored, 1), w)
        older_points == OlderPoints(points_scored, w)
        momentum == [j \in 1..n |-> Sub(recent_points[j], older_points[j])]
        WriteHome(r, j) ==
            [r EXCEPT !.home_avg_points = rolling_avg_points[j],
                      !.home_avg_allowed = rolling_avg_allowed[j],
                      !.home_win_pct = rolling_win_pct[j],
                      !.home_rest_days = rest_days[j],
                      !.home_momentum = momentum[j]]
        WriteAway(r, j) ==
            [r EXCEPT !.away_avg_points = rolling_avg_points[j],
                      !.away_avg_allowed = rolling_avg_allowed[j],
                      !.away_win_pct = rolling_win_pct[j],
                      !.away_rest_days = rest_days[j],
                      !.away_momentum = momentum[j]]
    IN [i \in 1..Len(t) |->
          LET h == IF t[i].team_home = team THEN WriteHome(t[i], PosIn(idx, i)) ELSE t[i]
          IN IF t[i].team_away = team THEN WriteAway(h, PosIn(idx, i)) ELSE h]

RECURSIVE RollingLoop(_, _, _)
RollingLoop(t, teams, w) ==
    IF teams = <<>> THEN t
    ELSE RollingLoop(RollingIteration(t, Head(teams), w), Tail(teams), w)

\* the fills with the rest-day columns left as the loop wrote them
FillRolling_WithoutRestDays(t) ==
    [i \in 1..Len(t) |->
        [t[i] EXCEPT !.home_avg_points = FillNa(@, 21 * Scale),
                     !.away_avg_points = FillNa(@, 21 * Scale),
                     !.home_avg_allowed = FillNa(@, 21 * Scale),
                     !.away_avg_allowed = FillNa(@, 21 * Scale),
                     !.home_win_pct = FillNa(@, Scale \div 2),
                     !.away_win_pct = FillNa(@, Scale \div 2),
                     !.home_momentum = FillNa(@, 0),
                     !.away_momentum = FillNa(@, 0)]]

\* the neutral fills after the loop
FillRolling(t) ==
    [i \in 1..Len(t) |->
        [t[i] EXCEPT !.home_avg_points = FillNa(@, 21 * Scale),
                     !.away_avg_points = FillNa(@, 21 * Scale),
                     !.home_avg_allowed = FillNa(@, 21 * Scale),
                     !.away_avg_allowed = FillNa(@, 21 * Scale),
                     !.home_win_pct = FillNa(@, Scale \div 2),
                     !.away_win_pct = FillNa(@, Scale \div 2),
                     !.home_rest_days = FillNa(@, 7),
                     !.away_rest_days = FillNa(@, 7),
                     !.home_momentum = FillNa(@, 0),
                     !.away_momentum = FillNa(@, 0)]]

DiffFeatures(t) ==
    [i \in 1..Len(t) |->
        [avg_points_diff |-> Sub(t[i].home_avg_points, t[i].away_avg_points),
         avg_allowed_diff |-> Sub(t[i].away_avg_allowed, t[i].home_avg_allowed),
         win_pct_diff |-> Sub(t[i].home_win_pct, t[i].away_win_pct),
         rest_days_diff |-> Sub(t[i].home_rest_days, t[i].away_rest_days),
         momentum_diff |-> Sub(t[i].home_momentum, t[i].away_momentum)] @@ t[i]]

IsModern(r) == r.schedule_season >= MODERN_START_YEAR

\* the table the per-team loop starts from (lines 41-57)
RollingInput(t) ==
    LET sorted == SortValues(t)
        modern == Filter(sorted, IsModern)
        dated == [i \in 1..Len(modern) |->
                    [modern[i] EXCEPT !.schedule_date = ToDatetimeCell(@)]]
    IN InitRollingCols(dated)

add_rolling_features(t, w) ==
    LET sorted == SortValues(t)
        modern == Filter(sorted, IsModern)
        dated == [i \in 1..Len(modern) |->
                    [modern[i] EXCEPT !.schedule_date = ToDatetimeCell(@)]]
        cols == InitRollingCols(dated)
        looped == RollingLoop(cols, TeamsOf(cols), w)
    IN DiffFeatures(FillRolling(looped))

\* the caller's frame after a call that worked on the frame it was given
CallerFrame_InPlace(t, out) == out

\* the caller's frame after add_rolling_features(t, w) returned out: line 41
\* rebinds df to a sorted copy, every later assignment goes to the copy
CallerFrame(t, out) == t

----------------------------------------------------------------------------
(* features.py: add_rolling_epa_features.  Two of the five statistics are  *)
(* carried (epa_per_play, filled with 0, and success_rate, filled with     *)
(* 0.5); pass_epa, rush_epa and def_epa_allowed repeat the epa_per_play    *)
(* code line for line.                                                     *)

InitEpaCols(t) ==
    [i \in 1..Len(t) |->
        t[i] @@ [home_rolling_epa |-> NaN, away_rolling_epa |-> NaN,
                 home_rolling_success |-> NaN, away_rolling_success |-> NaN]]

EpaIteration(t, team, w) ==
    LET idx == TeamRows(t, team)
        n == Len(idx)
        team_epa == [j \in 1..n |->
            IF t[idx[j]].team_home = team THEN t[idx[j]].home_epa_per_play
            ELSE t[idx[j]].away_epa_per_play]
        team_success == [j \in 1..n |->
            IF t[idx[j]].team_home = team THEN t[idx[j]].home_success_rate
            ELSE t[idx[j]].away_success_rate]
        rolling_epa == RollingMean(Shift(team_epa, 1), w)
        rolling_success == RollingMean(Shift(team_success, 1), w)
    IN [i \in 1..Len(t) |->
          LET h == IF t[i].team_home = team
                   THEN [t[i] EXCEPT !.home_rolling_epa = rolling_epa[PosIn(idx, i)],
                                     !.home_rolling_success = rolling_success[PosIn(idx, i)]]
                   ELSE t[i]
          IN IF t[i].team_away = team
             THEN [h EXCEPT !.away_rolling_epa = rolling_epa[PosIn(idx, i)],
                            !.away_rolling_success = rolling_success[PosIn(idx, i)]]
             ELSE h]

RECURSIVE EpaLoop(_, _, _)
EpaLoop(t, teams, w) ==
    IF teams = <<>> THEN t
    ELSE EpaLoop(EpaIteration(t, Head(teams), w), Tail(teams), w)

FillEpa(t) ==
    [i \in 1..Len(t) |->
        [t[i] EXCEPT !.home_rolling_epa = FillNa(@, 0),
                     !.away_rolling_epa = FillNa(@, 0),
                     !.home_rolling_success = FillNa(@, Scale \div 2),
                     !.away_rolling_success = FillNa(@, Scale \div 2)]]

EpaDiffFeatures(t) ==
    [i \in 1..Len(t) |->
        t[i] @@ [epa_diff |-> Sub(t[i].home_rolling_epa, t[i].away_rolling_epa),
                 success_rate_diff |-> Sub(t[i].home_rolling_success, t[i].away_rolling_success)]]

add_rolling_epa_features(t, w) ==
    LET sorted == SortValues(t)
        cols == InitEpaCols(sorted)
        looped == EpaLoop(cols, TeamsOf(cols), w)
    IN EpaDiffFeatures(FillEpa(looped))

\* 'home_epa_per_play' in df.columns
HasNflfastr(t) == \E i \in 1..Len(t) : "home_epa_per_play" \in DOMAIN t[i]

\* encode_features: the EPA stage runs on the table add_rolling_features returned
EncodedTable(r, w) == IF HasNflfastr(r) THEN add_rolling_epa_features(r, w) ELSE r

LabelVector(t) == [i \in 1..Len(t) |-> t[i].home_team_won]

\* encode_features: the base feature columns, in order
base_feature_cols ==
    << "home_team_encoded", "away_team_encoded", "spread_favorite",
       "home_avg_points", "away_avg_points", "home_avg_allowed", "away_avg_allowed",
       "home_win_pct", "away_win_pct", "avg_points_diff", "avg_allowed_diff",
       "win_pct_diff", "home_field_advantage", "home_rest_days", "away_rest_days",
       "rest_days_diff", "home_momentum", "away_momentum", "momentum_diff",
       "spread_strength_interaction", "spread_defense_interaction",
       "weather_temperature", "weather_wind_mph", "weather_humidity",
       "extreme_cold", "extreme_heat", "high_wind", "is_rainy", "is_snowy",
       "bad_weather", "weather_offense_interaction",
       "is_playoff", "is_neutral_site", "over_under_line", "over_under_normalized" >>

epa_feature_cols ==
    << "home_rolling_epa", "away_rolling_epa", "epa_diff",
       "home_rolling_pass_epa", "away_rolling_pass_epa", "pass_epa_diff",
       "home_rolling_rush_epa", "away_rolling_rush_epa", "rush_epa_diff",
       "home_rolling_success", "away_rolling_success", "success_rate_diff",
       "home_rolling_def_epa", "away_rolling_def_epa", "def_epa_diff",
       "spread_epa_interaction" >>

\* the columns of X = df[feature_cols]; the rolling stages keep the columns of
\* the game table t, so t decides has_nflfastr
feature_cols(t) ==
    IF HasNflfastr(t) THEN base_feature_cols \o epa_feature_cols ELSE base_feature_cols

----------------------------------------------------------------------------
(* Inputs: the rows a game file can hold *)

Teams == {"A", "B", "C"}

\* (team_home, team_away)
Matchups == {<<"A", "B">>, <<"B", "A">>, <<"C", "B">>}

\* the schedule: one game day per slot, in calendar order
Calendar ==
    << [schedule_date |-> DateText(12, 30, 2001), schedule_season |-> 2001, schedule_week |-> "17"],
       [schedule_date |-> DateText(9, 15, 2002), schedule_season |-> 2002, schedule_week |-> "2"],
       [schedule_date |-> DateText(9, 22, 2002), schedule_season |-> 2002, schedule_week |-> "3"],
       [schedule_date |-> DateText(9, 29, 2002), schedule_season |-> 2002, schedule_week |-> "4"],
       [schedule_date |-> DateText(10, 6, 2002), schedule_season |-> 2002, schedule_week |-> "5"] >>

Slots == 1..Len(Calendar)

\* scores and merged nflfastR statistics of a game: not yet played, played and
\* matched by the secondary source, played and not matched
Outcomes ==
    { [score_home |-> NaN, score_away |-> NaN,
       home_epa_per_play |-> NaN, away_epa_per_play |-> NaN,
       home_success_rate |-> NaN, away_success_rate |-> NaN],
      [score_home |-> V(30), score_away |-> V(10),
       home_epa_per_play |-> V(2), away_epa_per_play |-> V(-1),
       home_success_rate |-> V(1), away_success_rate |-> V(0)],
      [score_home |-> V(10), score_away |-> V(20),
       home_epa_per_play |-> NaN, away_epa_per_play |-> NaN,
       home_success_rate |-> NaN, away_success_rate |-> NaN] }

\* the same games in a file that was not merged with the secondary source
PlainOutcomes ==
    {[c \in {"score_home", "score_away"} |-> o[c]] : o \in Outcomes}

\* every row of a file has the columns of the file
OutcomesFor(t) ==
    IF t = <<>> THEN Outcomes \cup PlainOutcomes
    ELSE IF "home_epa_per_play" \in DOMAIN t[1] THEN Outcomes ELSE PlainOutcomes

GameRow(k, mu, o) ==
    [game_id |-> k,
     schedule_date |-> TextCell(Calendar[k].schedule_date),
     schedule_season |-> Calendar[k].schedule_season,
     schedule_week |-> Calendar[k].schedule_week,
     team_home |-> mu[1], team_away |-> mu[2]] @@ o

----------------------------------------------------------------------------
(* predict.py *)

None == <<>>
Some(x) == <<x>>

\* df.sort_values("schedule_date", ascending=False)
InsertRowDesc(r, s) ==
    LET k == Cardinality({i \in 1..Len(s) : ~CellLess(s[i].schedule_date, r.schedule_date)})
    IN SubSeq(s, 1, k) \o <<r>> \o SubSeq(s, k + 1, Len(s))

RECURSIVE SortValuesDesc(_)
SortValuesDesc(t) ==
    IF t = <<>> THEN <<>>
    ELSE InsertRowDesc(t[Len(t)], SortValuesDesc(SubSeq(t, 1, Len(t) - 1)))

\* DataFrame.head(n)
HeadRows(t, n) == SubSeq(t, 1, IF n < Len(t) THEN n ELSE Len(t))

\* np.mean of a list of cells: NaN as soon as one cell is NaN
NpMean(s) ==
    IF \E i \in 1..Len(s) : IsNa(s[i]) THEN NaN
    ELSE V((SumOver(s, 1..Len(s)) * Scale) \div Len(s))

\* the rows get_team_recent_stats takes its statistics from (recent_games)
RecentGames(t, team, n_games) ==
    LET InTeam(r) == r.team_home = team \/ r.team_away = team
    IN HeadRows(SortValuesDesc(Filter(t, InTeam)), n_games)

get_team_recent_stats(t, team, n_games) ==
    LET recent_games == RecentGames(t, team, n_games)
        n == Len(recent_games)
        points_scored == [j \in 1..n |->
            IF recent_games[j].team_home = team THEN recent_games[j].score_home
            ELSE recent_games[j].score_away]
        points_allowed == [j \in 1..n |->
            IF recent_games[j].team_home = team THEN recent_games[j].score_away
            ELSE recent_games[j].score_home]
        wins == Cardinality({j \in 1..n :
            IF recent_games[j].team_home = team
            THEN Gt(recent_games[j].score_home, recent_games[j].score_away)
            ELSE Gt(recent_games[j].score_away, recent_games[j].score_home)})
    IN IF n = 0 THEN None
       ELSE Some([avg_points |-> NpMean(points_scored),
                  avg_allowed |-> NpMean(points_allowed),
                  win_pct |-> V((wins * Scale) \div n),
                  momentum |-> IF n >= 3
                               THEN Sub(NpMean(SubSeq(points_scored, n - 1, n)),
                                        NpMean(SubSeq(points_scored, 1, 2)))
                               ELSE V(0),
                  recent |-> [j \in 1..n |-> recent_games[j].game_id]])

\* the statistics part of create_prediction_input; n_games is left at its default
N_GAMES == 3

\* the keys of the features dict, in order: the columns of pd.DataFrame([features])
features_keys ==
    << "home_team_encoded", "away_team_encoded", "spread_favorite",
       "home_avg_points", "away_avg_points", "home_avg_allowed", "away_avg_allowed",
       "home_win_pct", "away_win_pct", "avg_points_diff", "avg_allowed_diff",
       "win_pct_diff", "home_field_advantage", "home_rest_days", "away_rest_days",
       "rest_days_diff", "home_momentum", "away_momentum", "momentum_diff",
       "spread_strength_interaction", "spread_defense_interaction",
       "weather_temperature", "weather_wind_mph", "weather_humidity",
       "extreme_cold", "extreme_heat", "high_wind", "is_rainy", "is_snowy",
       "bad_weather", "weather_offense_interaction",
       "is_playoff", "is_neutral_site", "over_under_line", "over_under_normalized" >>

\* LabelEncoder().fit(all_teams): the classes are the teams of the table
LabelEncoderFit(t) == {t[i].team_home : i \in 1..Len(t)} \cup {t[i].team_away : i \in 1..Len(t)}

\* the function without the encoder.transform calls
create_prediction_input_NoTransform(home_team, away_team, t, encoder) ==
    LET home_stats == get_team_recent_stats(t, home_team, N_GAMES)
        away_stats == get_team_recent_stats(t, away_team, N_GAMES)
    IN IF home_stats = None \/ away_stats = None
       THEN [raised |-> "ValueError"]
       ELSE [raised |-> "",
             columns |-> features_keys,
             home_stats |-> home_stats[1],
             away_stats |-> away_stats[1],
             avg_points_diff |-> Sub(home_stats[1].avg_points, away_stats[1].avg_points),
             avg_allowed_diff |-> Sub(away_stats[1].avg_allowed, home_stats[1].avg_allowed),
             win_pct_diff |-> Sub(home_stats[1].win_pct, away_stats[1].win_pct),
             home_rest_days |-> 7, away_rest_days |-> 7, rest_days_diff |-> 0,
             momentum_diff |-> Sub(home_stats[1].momentum, away_stats[1].momentum)]

\* encoder stands for encoder.classes_; transform raises on a label that is
\* not a class, and the bare except turns that into ValueError
create_prediction_input(home_team, away_team, t, encoder) ==
    LET home_stats == get_team_recent_stats(t, home_team, N_GAMES)
        away_stats == get_team_recent_stats(t, away_team, N_GAMES)
    IN IF home_stats = None \/ away_stats = None
       THEN [raised |-> "ValueError"]
       ELSE IF home_team \notin encoder \/ away_team \notin encoder
       THEN [raised |-> "ValueError"]
       ELSE [raised |-> "",
             columns |-> features_keys,
             home_stats |-> home_stats[1],
             away_stats |-> away_stats[1],
             avg_points_diff |-> Sub(home_stats[1].avg_points, away_stats[1].avg_points),
             avg_allowed_diff |-> Sub(away_stats[1].avg_allowed, home_stats[1].avg_allowed),
             win_pct_diff |-> Sub(home_stats[1].win_pct, away_stats[1].win_pct),
             home_rest_days |-> 7, away_rest_days |-> 7, rest_days_diff |-> 0,
             momentum_diff |-> Sub(home_stats[1].momentum, away_stats[1].momentum)]

\* str(week)
WeekStr(week) ==
    << "1", "2", "3", "4", "5", "6", "7", "8", "9", "10", "11", "12",
       "13", "14", "15", "16", "17", "18" >>[week]

\* predict_current_week: one feature vector per game of the requested week
predict_current_week(t, encoder, season, week) ==
    LET InWeek(r) == r.schedule_season = season /\ r.schedule_week = WeekStr(week)
        week_games == Filter(t, InWeek)
    IN [i \in 1..Len(week_games) |->
          [game_id |-> week_games[i].game_id,
           team_home |-> week_games[i].team_home,
           team_away |-> week_games[i].team_away,
           schedule_date |-> week_games[i].schedule_date,
           input |-> create_prediction_input(week_games[i].team_home,
                                             week_games[i].team_away, t, encoder)]]

----------------------------------------------------------------------------
(* client.py: SleeperClient._get_cached.  A cache entry is the pair         *)
(* (result, timestamp); _get returns None when the request failed.         *)

default_ttl == 600

\* the requests of get_rosters and get_trending_players
Requests ==
    { [endpoint |-> "league/L/rosters", params |-> "null"],
      [endpoint |-> "players/nfl/trending/add", params |-> "{limit: 25, type: add}"] }

\* f"{endpoint}-{json.dumps(params, sort_keys=True)}"
CacheKey(endpoint, params) == <<endpoint, "-", params>>
CacheKeys == {CacheKey(r.endpoint, r.params) : r \in Requests}

\* the cache that stores a failed request as well
get_cached_StoreNone(cache, key, ttl_arg, now, response) ==
    LET ttl == IF ttl_arg = None \/ ttl_arg = Some(0) THEN default_ttl ELSE ttl_arg[1]
        cached == cache[key]
    IN IF cached # None /\ now - cached[1].timestamp < ttl
       THEN [returned |-> cached[1].result, cache |-> cache, requests |-> 0]
       ELSE [returned |-> response,
             cache |-> [cache EXCEPT ![key] = Some([result |-> response, timestamp |-> now])],
             requests |-> 1]

\* _get_cached at time now; response is what _get returns if it is called
get_cached(cache, key, ttl_arg, now, response) ==
    LET ttl == IF ttl_arg = None \/ ttl_arg = Some(0) THEN default_ttl ELSE ttl_arg[1]
        cached == cache[key]
    IN IF cached # None /\ now - cached[1].timestamp < ttl
       THEN [returned |-> cached[1].result, cache |-> cache, requests |-> 0]
       ELSE [returned |-> response,
             cache |-> IF response # None
                       THEN [cache EXCEPT ![key] = Some([result |-> response,
                                                         timestamp |-> now])]
                       ELSE cache,
             requests |-> 1]

----------------------------------------------------------------------------
(* Weather flags: add_weather_features on a training row, and the flags    *)
(* create_prediction_input computes from its weather arguments             *)

Bit(b) == IF b THEN 1 ELSE 0

\* str.contains(pattern) on the lowered weather_detail text
RainTexts == {"rain", "light rain showers"}
SnowTexts == {"snow", "snow flurries"}

\* add_weather_features on one row
add_weather_features(row) ==
    LET weather_temperature == FillNa(row.weather_temperature, 70)
        weather_wind_mph == FillNa(row.weather_wind_mph, 0)
        extreme_cold == Bit(Get(weather_temperature) < 32)
        extreme_heat == Bit(Get(weather_temperature) > 85)
        high_wind == Bit(Get(weather_wind_mph) > 15)
        weather_detail == Get(FillNa(row.weather_detail, ""))
        is_rainy == Bit(weather_detail \in RainTexts)
        is_snowy == Bit(weather_detail \in SnowTexts)
    IN [weather_temperature |-> weather_temperature,
        weather_wind_mph |-> weather_wind_mph,
        extreme_cold |-> extreme_cold,
        extreme_heat |-> extreme_heat,
        high_wind |-> high_wind,
        is_rainy |-> is_rainy,
        is_snowy |-> is_snowy,
        bad_weather |-> Bit(extreme_cold = 1 \/ high_wind = 1 \/ is_rainy = 1 \/ is_snowy = 1)]

\* the weather part of create_prediction_input
prediction_weather(weather_temp, weather_wind) ==
    LET extreme_cold == Bit(weather_temp < 32)
        extreme_heat == Bit(weather_temp > 85)
        high_wind == Bit(weather_wind > 15)
        is_rainy == 0
        is_snowy == 0
    IN [weather_temperature |-> V(weather_temp),
        weather_wind_mph |-> V(weather_wind),
        extreme_cold |-> extreme_cold,
        extreme_heat |-> extreme_heat,
        high_wind |-> high_wind,
        is_rainy |-> is_rainy,
        is_snowy |-> is_snowy,
        bad_weather |-> Max(Max(Max(extreme_cold, extreme_heat), high_wind),
                            Max(is_rainy, is_snowy))]

----------------------------------------------------------------------------
(* load_data.py: merge_with_spreadspoke.  Here a table is a sequence of    *)
(* column labels and a sequence of rows of cells, so that two columns may  *)
(* carry the same label, as in a DataFrame.  A label is the sequence of    *)
(* its words: home_epa_per_play is <<"home", "epa", "per", "play">>.       *)

Table(columns, rows) == [columns |-> columns, rows |-> rows]

\* positions of the columns carrying a label
ColPos(t, label) == {i \in 1..Len(t.columns) : t.columns[i] = label}
HasCol(t, label) == ColPos(t, label) # {}
ColAt(t, label) == CHOOSE i \in ColPos(t, label) : TRUE

\* the positions of 1..n that satisfy Keep, ascending
Select(n, Keep(_)) ==
    LET F[i \in 0..n] == IF i = 0 THEN <<>> ELSE IF Keep(i) THEN Append(F[i - 1], i) ELSE F[i - 1]
    IN F[n]

RECURSIVE Flatten(_)
Flatten(ss) == IF ss = <<>> THEN <<>> ELSE Head(ss) \o Flatten(Tail(ss))

NaNs(n) == [i \in 1..n |-> NaN]

\* pandas merge of two frames on key labels (left_on[k] pairs with right_on[k]).
\* A key label carried by two columns of a frame is rejected with
\* ValueError("The column label ... is not unique"); NaN keys match NaN keys;
\* a non-key label present on both sides gets the suffixes _x and _y.  The rows
\* of the left frame come first, in their order (an outer join of pandas sorts
\* by key instead; nothing here depends on the row order of game_stats).
merge(left, right, left_on, right_on, how) ==
    LET K == 1..Len(left_on)
        unique == \A k \in K :
                     /\ Cardinality(ColPos(left, left_on[k])) = 1
                     /\ Cardinality(ColPos(right, right_on[k])) = 1
        lpos == [k \in K |-> ColAt(left, left_on[k])]
        rpos == [k \in K |-> ColAt(right, right_on[k])]
        \* keys named alike on both sides appear once in the result
        shared == {k \in K : left_on[k] = right_on[k]}
        RKept(c) == \A k \in shared : rpos[k] # c
        rkeep == Select(Len(right.columns), RKept)
        LOverlaps(c) == /\ \A k \in shared : lpos[k] # c
                        /\ \E d \in 1..Len(rkeep) : right.columns[rkeep[d]] = left.columns[c]
        ROverlaps(c) == \E d \in 1..Len(left.columns) :
                            /\ left.columns[d] = right.columns[c]
                            /\ \A k \in shared : lpos[k] # d
        columns ==
            [c \in 1..Len(left.columns) |->
                IF LOverlaps(c) THEN left.columns[c] \o <<"x">> ELSE left.columns[c]]
            \o [d \in 1..Len(rkeep) |->
                IF ROverlaps(rkeep[d]) THEN right.columns[rkeep[d]] \o <<"y">>
                ELSE right.columns[rkeep[d]]]
        Match(lr, rr) == \A k \in K : lr[lpos[k]] = rr[rpos[k]]
        RightPart(rr) == [d \in 1..Len(rkeep) |-> rr[rkeep[d]]]
        RowsFor(i) ==
            LET Hit(j) == Match(left.rows[i], right.rows[j])
                hits == Select(Len(right.rows), Hit)
            IN IF hits = <<>> THEN << left.rows[i] \o NaNs(Len(rkeep)) >>
               ELSE [m \in 1..Len(hits) |-> left.rows[i] \o RightPart(right.rows[hits[m]])]
        Unmatched(j) == \A i \in 1..Len(left.rows) : ~Match(left.rows[i], right.rows[j])
        \* a right-only row: its keys fill the shared key columns, the rest is NaN
        RightOnly(rr) ==
            [c \in 1..Len(left.columns) |->
                IF \E k \in shared : lpos[k] = c
                THEN rr[rpos[CHOOSE k \in shared : lpos[k] = c]] ELSE NaN]
            \o RightPart(rr)
        extra == Select(Len(right.rows), Unmatched)
        rows == Flatten([i \in 1..Len(left.rows) |-> RowsFor(i)])
                \o (IF how = "outer"
                    THEN [m \in 1..Len(extra) |-> RightOnly(right.rows[extra[m]])]
                    ELSE <<>>)
    IN IF unique THEN [raised |-> "", table |-> Table(columns, rows)]
       ELSE [raised |-> "ValueError", table |-> Table(<<>>, <<>>)]

team_name_map ==
    ("ARI" :> "Arizona Cardinals") @@ ("ATL" :> "Atlanta Falcons") @@
    ("BAL" :> "Baltimore Ravens") @@ ("BUF" :> "Buffalo Bills") @@
    ("CAR" :> "Carolina Panthers") @@ ("CHI" :> "Chicago Bears") @@
    ("CIN" :> "Cincinnati Bengals") @@ ("CLE" :> "Cleveland Browns") @@
    ("DAL" :> "Dallas Cowboys") @@ ("DEN" :> "Denver Broncos") @@
    ("DET" :> "Detroit Lions") @@ ("GB" :> "Green Bay Packers") @@
    ("HOU" :> "Houston Texans") @@ ("IND" :> "Indianapolis Colts") @@
    ("JAX" :> "Jacksonville Jaguars") @@ ("KC" :> "Kansas City Chiefs") @@
    ("LAC" :> "Los Angeles Chargers") @@ ("LA" :> "Los Angeles Rams") @@
    ("LV" :> "Las Vegas Raiders") @@ ("MIA" :> "Miami Dolphins") @@
    ("MIN" :> "Minnesota Vikings") @@ ("NE" :> "New England Patriots") @@
    ("NO" :> "New Orleans Saints") @@ ("NYG" :> "New York Giants") @@
    ("NYJ" :> "New York Jets") @@ ("PHI" :> "Philadelphia Eagles") @@
    ("PIT" :> "Pittsburgh Steelers") @@ ("SEA" :> "Seattle Seahawks") @@
    ("SF" :> "San Francisco 49ers") @@ ("TB" :> "Tampa Bay Buccaneers") @@
    ("TEN" :> "Tennessee Titans") @@ ("WAS" :> "Washington Commanders") @@
    ("OAK" :> "Oakland Raiders") @@ ("SD" :> "San Diego Chargers") @@
    ("STL" :> "St. Louis Rams")

\* Series.map(dict): a value that is not a key of the dict becomes NaN
SeriesMap(c, dict) ==
    IF NotNa(c) /\ Get(c) \in DOMAIN dict THEN V(dict[Get(c)]) ELSE NaN

\* df[label] = df[label].map(f), on the one column carrying the label
MapCol(t, label, F(_)) ==
    Table(t.columns,
          [i \in 1..Len(t.rows) |->
              [c \in 1..Len(t.columns) |->
                  IF c = ColAt(t, label) THEN F(t.rows[i][c]) ELSE t.rows[i][c]]])

\* df[df[a] == df[b]]: a comparison with NaN is False
RowsWhereEqual(t, a, b) ==
    LET Keep(i) == /\ NotNa(t.rows[i][ColAt(t, a)])
                   /\ t.rows[i][ColAt(t, a)] = t.rows[i][ColAt(t, b)]
        kept == Select(Len(t.rows), Keep)
    IN Table(t.columns, [m \in 1..Len(kept) |-> t.rows[kept[m]]])

MergeKeys ==
    << <<"game", "id">>, <<"season">>, <<"week">>, <<"home", "team">>, <<"away", "team">> >>

\* the renaming with the team column left alone
RenameSide_KeepTeam(t, side) ==
    Table([c \in 1..Len(t.columns) |->
              IF t.columns[c] = <<"team">> \/ \E k \in 1..Len(MergeKeys) : MergeKeys[k] = t.columns[c]
              THEN t.columns[c] ELSE <<side>> \o t.columns[c]],
          t.rows)

\* {col: f'{side}_{col}' for col in columns if col not in [the merge keys]},
\* applied by DataFrame.rename: every other label gets the prefix
RenameSide(t, side) ==
    Table([c \in 1..Len(t.columns) |->
              IF \E k \in 1..Len(MergeKeys) : MergeKeys[k] = t.columns[c]
              THEN t.columns[c] ELSE <<side>> \o t.columns[c]],
          t.rows)

\* astype(str) of an integer week
AsTypeStr(c) == IF NotNa(c) THEN V(WeekStr(Get(c))) ELSE V("nan")

\* DataFrame.drop(columns=labels, errors='ignore')
DropCols(t, labels) ==
    LET Kept(c) == t.columns[c] \notin labels
        keep == Select(Len(t.columns), Kept)
    IN Table([d \in 1..Len(keep) |-> t.columns[keep[d]]],
             [i \in 1..Len(t.rows) |-> [d \in 1..Len(keep) |-> t.rows[i][keep[d]]]])

NotNaCount(t, label) ==
    Cardinality({i \in 1..Len(t.rows) : NotNa(t.rows[i][ColAt(t, label)])})

\* the caller's nflfastr_stats after lines 297-299 have rewritten it in place
MappedStats(stats) ==
    LET ToName(c) == SeriesMap(c, team_name_map)
    IN MapCol(MapCol(MapCol(stats, <<"team">>, ToName), <<"home", "team">>, ToName),
              <<"away", "team">>, ToName)

\* the call's outcome: raised is "" and table is the merged frame, or raised
\* names the exception that left the function; printed names the counts the
\* call printed
merge_with_spreadspoke(spreadspoke, stats) ==
    LET mapped == MappedStats(stats)
        home_stats == RenameSide(RowsWhereEqual(mapped, <<"team">>, <<"home", "team">>), "home")
        away_stats == RenameSide(RowsWhereEqual(mapped, <<"team">>, <<"away", "team">>), "away")
        game == merge(home_stats, away_stats, MergeKeys, MergeKeys, "outer")
        game_stats == MapCol(game.table, <<"week">>, AsTypeStr)
        joined == merge(spreadspoke, game_stats,
                        << <<"schedule", "season">>, <<"schedule", "week">>,
                           <<"team", "home">>, <<"team", "away">> >>,
                        << <<"season">>, <<"week">>, <<"home", "team">>, <<"away", "team">> >>,
                        "left")
        merged_df == DropCols(joined.table, {MergeKeys[k] : k \in 1..Len(MergeKeys)})
        Failed(e) == [raised |-> e, table |-> Table(<<>>, <<>>), n_matched |-> 0,
                      printed |-> <<>>]
    IN IF game.raised # "" THEN Failed(game.raised)
       ELSE IF joined.raised # "" THEN Failed(joined.raised)
       ELSE IF ~HasCol(merged_df, <<"home", "epa", "per", "play">>) THEN Failed("KeyError")
       \* n_matched/n_total of the report divides by the number of rows
       ELSE IF Len(merged_df.rows) = 0 THEN Failed("ZeroDivisionError")
       ELSE [raised |-> "", table |-> merged_df,
             n_matched |-> NotNaCount(merged_df, <<"home", "epa", "per", "play">>),
             \* the counts the report at line 344 prints
             printed |-> <<"n_matched", "n_total">>]

\* the columns of the two frames (one statistic stands for the statistics
\* aggregate_team_stats computes per team and game)
SpreadspokeColumns ==
    << <<"schedule", "season">>, <<"schedule", "week">>, <<"team", "home">>,
       <<"team", "away">>, <<"score", "home">> >>

StatsColumns ==
    << <<"game", "id">>, <<"team">>, <<"epa", "per", "play">>, <<"season">>, <<"week">>,
       <<"home", "team">>, <<"away", "team">> >>

\* the games a primary file can hold, in file order
SpreadspokeGames ==
    << <<V(2023), V("14"), V("Kansas City Chiefs"), V("Buffalo Bills"), V(27)>>,
       <<V(2023), V("15"), V("Buffalo Bills"), V("Dallas Cowboys"), V(31)>>,
       <<V(2023), V("16"), V("Kansas City Chiefs"), V("Los Angeles Rams"), V(20)>> >>

\* game_context rows of the secondary source: the second game repeats the
\* (season, week, home_team, away_team) of the first under another game_id;
\* the away team of the fourth carries an abbreviation team_name_map lacks
StatsGames ==
    << [game_id |-> "2023_14_BUF_KC", season |-> 2023, week |-> 14, home_team |-> "KC", away_team |-> "BUF"],
       [game_id |-> "2023_14_BUF_KC_b", season |-> 2023, week |-> 14, home_team |-> "KC", away_team |-> "BUF"],
       [game_id |-> "2023_15_DAL_BUF", season |-> 2023, week |-> 15, home_team |-> "BUF", away_team |-> "DAL"],
       [game_id |-> "2023_16_LAR_KC", season |-> 2023, week |-> 16, home_team |-> "KC", away_team |-> "LAR"] >>

\* the team-game rows aggregate_team_stats can return: (game, side)
TeamGames == {<<g, side>> : g \in 1..Len(StatsGames), side \in {"home", "away"}}

TeamGameIndex(tg) == 2 * tg[1] - (IF tg[2] = "home" THEN 1 ELSE 0)

TeamGameRow(tg) ==
    LET g == StatsGames[tg[1]]
    IN << V(g.game_id), V(IF tg[2] = "home" THEN g.home_team ELSE g.away_team),
          V(TeamGameIndex(tg)), V(g.season), V(g.week), V(g.home_team), V(g.away_team) >>

----------------------------------------------------------------------------
(* aggregate_team_stats and load_data_with_nflfastr (load_data.py)          *)

MaxPlays == 2

\* the play-by-play rows the secondary source can hold: a play of one of two
\* games, with either team in possession
PbpGames == {StatsGames[1], StatsGames[3]}
PlayTypes == {"run", "pass", "no_play"}
Epas == {NaN, V(1), V(4)}

PbpPlays ==
    {[game_id |-> g.game_id, season |-> g.season, week |-> g.week,
      home_team |-> g.home_team, away_team |-> g.away_team,
      play_type |-> pt, epa |-> e,
      posteam |-> IF side = "home" THEN g.home_team ELSE g.away_team,
      defteam |-> IF side = "home" THEN g.away_team ELSE g.home_team] :
        g \in PbpGames, pt \in PlayTypes, e \in Epas, side \in {"home", "away"}}

\* the order groupby sorts its keys in: game_id, then the team abbreviation
GameIds == <<"2023_14_BUF_KC", "2023_14_BUF_KC_b", "2023_15_DAL_BUF", "2023_16_LAR_KC">>
Abbreviations == <<"BUF", "DAL", "KC">>
RankIn(seq, x) == CHOOSE i \in 1..Len(seq) : seq[i] = x
KeyLess(a, b) ==
    \/ RankIn(GameIds, a[1]) < RankIn(GameIds, b[1])
    \/ a[1] = b[1] /\ RankIn(Abbreviations, a[2]) < RankIn(Abbreviations, b[2])

RECURSIVE SortKeys(_)
SortKeys(S) ==
    IF S = {} THEN <<>>
    ELSE LET least == CHOOSE k \in S : \A l \in S \ {k} : KeyLess(k, l)
         IN <<least>> \o SortKeys(S \ {least})

\* plays.groupby(['game_id', by]).agg({'epa': 'mean'}).reset_index(): one row
\* per key that occurs, keys sorted, the mean scaled by Scale
GroupMean(plays, by) ==
    LET keys == SortKeys({<<plays[i].game_id, plays[i][by]>> : i \in 1..Len(plays)})
        Of(k) == {i \in 1..Len(plays) : <<plays[i].game_id, plays[i][by]>> = k}
        Epa == [i \in 1..Len(plays) |-> plays[i].epa]
    IN [m \in 1..Len(keys) |->
           << V(keys[m][1]), V(keys[m][2]),
              V((SumOver(Epa, Of(keys[m])) * Scale) \div Cardinality(Of(keys[m]))) >>]

\* plays.groupby('game_id').agg('first').reset_index()
GameContext(plays) ==
    LET ids == {plays[i].game_id : i \in 1..Len(plays)}
        keys == SortKeys({<<id, "BUF">> : id \in ids})
        First(id) == plays[CHOOSE i \in 1..Len(plays) :
                              /\ plays[i].game_id = id
                              /\ \A j \in 1..(i - 1) : plays[j].game_id # id]
    IN [m \in 1..Len(keys) |->
           << V(keys[m][1]), V(First(keys[m][1]).season), V(First(keys[m][1]).week),
              V(First(keys[m][1]).home_team), V(First(keys[m][1]).away_team) >>]

RetainedPlay(p) == p.play_type \in {"run", "pass"} /\ NotNa(p.epa)

\* one offensive and one defensive statistic stand for the statistics computed
aggregate_team_stats(pbp) ==
    LET plays == SelectSeq(pbp, RetainedPlay)
        TeamKeys == << <<"game", "id">>, <<"team">> >>
        offense_stats == Table(<< <<"game", "id">>, <<"team">>, <<"epa", "per", "play">> >>,
                               GroupMean(plays, "posteam"))
        defense_stats == Table(<< <<"game", "id">>, <<"team">>, <<"def", "epa", "allowed">> >>,
                               GroupMean(plays, "defteam"))
        game_context == Table(<< <<"game", "id">>, <<"season">>, <<"week">>,
                                 <<"home", "team">>, <<"away", "team">> >>,
                              GameContext(plays))
        with_defense == merge(offense_stats, defense_stats, TeamKeys, TeamKeys, "left")
    IN merge(with_defense.table, game_context,
             << <<"game", "id">> >>, << <<"game", "id">> >>, "left").table

\* how download_nflfastr_data ends: it raises ValueError when no season could
\* be fetched, or returns a frame, which may lack the play_type column
Downloads == {"ValueError", "no_play_type", "frame"}

\* the call's outcome: the table returned, the exception the try block caught
\* ("" when none) and the match rates printed, as <<n_matched, n_total>>
load_data_with_nflfastr(primary, download, pbp) ==
    LET Recovered(e) == [raised |-> "", table |-> primary, caught |-> e, reports |-> <<>>]
        m == merge_with_spreadspoke(primary, aggregate_team_stats(pbp))
    IN IF download = "ValueError" THEN Recovered("ValueError")
       ELSE IF Len(pbp) = 0 THEN Recovered("")
       ELSE IF download = "no_play_type" THEN Recovered("KeyError")
       ELSE IF m.raised # "" THEN Recovered(m.raised)
       ELSE [raised |-> "", table |-> m.table, caught |-> "",
             reports |-> << <<m.n_matched, Len(m.table.rows)>> >>]

----------------------------------------------------------------------------
(* The training path of main(): the loaded table goes through preprocess   *)
(* and encode_features; the whole pipeline is re-run on every new input.   *)

Run(t, w) ==
    /\ df' = t
    /\ window' = w
    /\ df_rolling' = add_rolling_features(preprocess(t), w)
    /\ rolled' = EncodedTable(df_rolling', w)
    /\ y' = LabelVector(rolled')
    /\ pred' = <<>>
    /\ UNCHANGED merging
    /\ UNCHANGED splitting
    /\ UNCHANGED loading
    /\ UNCHANGED calls
    /\ UNCHANGED later

Init ==
    /\ df = <<>>
    /\ window \in Windows
    /\ df_rolling = <<>>
    /\ rolled = <<>>
    /\ y = <<>>
    /\ pred = <<>>
    /\ spreadspoke_df = Table(SpreadspokeColumns, <<>>)
    /\ nflfastr_stats = Table(StatsColumns, <<>>)
    /\ merged = None
    /\ pbp_data = <<>>
    /\ team_stats = None
    /\ loaded = None
    /\ calls = None
    /\ weather = None
    /\ main = [pc |-> "encode_features", use_nflfastr |-> TRUE, df_processed |-> <<>>,
               returned |-> None, raised |-> "", printed |-> <<>>]
    /\ client = [cache |-> [key \in CacheKeys |-> None], clock |-> 0,
                 fetched |-> [key \in CacheKeys |-> None], n_calls |-> 0, last |-> None]
    /\ season_df = <<>>
    /\ split = None

\* a further game appears in the file, later than every game in it
LoadGame ==
    /\ Len(df) < MaxGames
    /\ \E k \in Slots, mu \in Matchups, o \in OutcomesFor(df) :
          /\ \A i \in 1..Len(df) : df[i].game_id < k
          /\ Run(Append(df, GameRow(k, mu, o)), window)

Next == LoadGame

Spec == Init /\ [][Next]_vars

----------------------------------------------------------------------------
(* The prediction menu of main(): the table is the preprocessed one, the   *)
(* aggregators ran with their default window.                              *)

QuerySeasons == {2001, 2002}
QueryWeeks == {2, 3, 4, 5, 8, 17}

PredictCurrentWeek ==
    \E season \in QuerySeasons, week \in QueryWeeks :
        /\ pred' = predict_current_week(preprocess(df), LabelEncoderFit(df), season, week)
        /\ UNCHANGED <<df, window, df_rolling, rolled, y>>
        /\ UNCHANGED merging
        /\ UNCHANGED splitting
        /\ UNCHANGED loading
        /\ UNCHANGED calls
    /\ UNCHANGED later

InitQuery == Init /\ window = ROLLING_WINDOW

NextQuery == LoadGame \/ PredictCurrentWeek

SpecQuery == InitQuery /\ [][NextQuery]_vars

----------------------------------------------------------------------------
(* load_data_with_nflfastr: the two sources are loaded, then merged *)

\* load_data reads a further game of the primary file
LoadSpreadspokeGame ==
    /\ merged = None
    /\ loaded = None
    /\ \E k \in 1..Len(SpreadspokeGames) :
          /\ \A i \in 1..Len(spreadspoke_df.rows) :
                \E j \in 1..(k - 1) : spreadspoke_df.rows[i] = SpreadspokeGames[j]
          /\ spreadspoke_df' = Table(spreadspoke_df.columns,
                                     Append(spreadspoke_df.rows, SpreadspokeGames[k]))
    /\ UNCHANGED <<nflfastr_stats, merged>>
    /\ UNCHANGED pipeline
    /\ UNCHANGED splitting
    /\ UNCHANGED loading
    /\ UNCHANGED calls
    /\ UNCHANGED later

\* aggregate_team_stats returns a further team-game row
AggregateTeamGame ==
    /\ merged = None
    /\ \E tg \in TeamGames :
          /\ \A i \in 1..Len(nflfastr_stats.rows) :
                \E ug \in TeamGames : /\ TeamGameIndex(ug) < TeamGameIndex(tg)
                                      /\ nflfastr_stats.rows[i] = TeamGameRow(ug)
          /\ nflfastr_stats' = Table(nflfastr_stats.columns,
                                     Append(nflfastr_stats.rows, TeamGameRow(tg)))
    /\ UNCHANGED <<spreadspoke_df, merged>>
    /\ UNCHANGED pipeline
    /\ UNCHANGED splitting
    /\ UNCHANGED loading
    /\ UNCHANGED calls
    /\ UNCHANGED later

\* merge_with_spreadspoke(spreadspoke_df, nflfastr_stats) is called
MergeWithSpreadspoke ==
    /\ merged' = Some(merge_with_spreadspoke(spreadspoke_df, nflfastr_stats))
    /\ nflfastr_stats' = MappedStats(nflfastr_stats)
    /\ UNCHANGED spreadspoke_df
    /\ UNCHANGED pipeline
    /\ UNCHANGED splitting
    /\ UNCHANGED loading
    /\ UNCHANGED calls
    /\ UNCHANGED later

InitMerge == Init /\ window = ROLLING_WINDOW

NextMerge == LoadSpreadspokeGame \/ AggregateTeamGame \/ MergeWithSpreadspoke

SpecMerge == InitMerge /\ [][NextMerge]_vars

----------------------------------------------------------------------------
(* load_data_with_nflfastr on a secondary source holding play-by-play rows *)

\* the secondary source holds a further play
DownloadPlay ==
    /\ loaded = None
    /\ team_stats = None
    /\ Len(pbp_data) < MaxPlays
    /\ \E p \in PbpPlays : pbp_data' = Append(pbp_data, p)
    /\ UNCHANGED <<team_stats, loaded>>
    /\ UNCHANGED calls
    /\ UNCHANGED later
    /\ UNCHANGED pipeline
    /\ UNCHANGED merging
    /\ UNCHANGED splitting

\* aggregate_team_stats(pbp_data) is called
AggregateTeamStats ==
    /\ loaded = None
    /\ team_stats = None
    /\ team_stats' = Some(aggregate_team_stats(pbp_data))
    /\ UNCHANGED <<pbp_data, loaded>>
    /\ UNCHANGED calls
    /\ UNCHANGED later
    /\ UNCHANGED pipeline
    /\ UNCHANGED merging
    /\ UNCHANGED splitting

\* load_data_with_nflfastr() is called with the library installed
LoadDataWithNflfastr ==
    /\ loaded = None
    /\ \E d \in Downloads :
          loaded' = Some(load_data_with_nflfastr(spreadspoke_df, d, pbp_data))
    /\ UNCHANGED <<pbp_data, team_stats>>
    /\ UNCHANGED calls
    /\ UNCHANGED later
    /\ UNCHANGED pipeline
    /\ UNCHANGED merging
    /\ UNCHANGED splitting

NextLoad == LoadSpreadspokeGame \/ DownloadPlay \/ AggregateTeamStats \/ LoadDataWithNflfastr

SpecLoad == InitMerge /\ [][NextLoad]_vars

----------------------------------------------------------------------------
(* add_rolling_features called twice in a row on the caller's table *)

RollTwice ==
    /\ calls = None
    /\ LET frame == preprocess(df)
           first == add_rolling_features(frame, window)
           second == add_rolling_features(CallerFrame(frame, first), window)
       IN calls' = Some([first |-> first, second |-> second])
    /\ UNCHANGED later
    /\ UNCHANGED pipeline
    /\ UNCHANGED merging
    /\ UNCHANGED splitting
    /\ UNCHANGED loading

LoadGameOnce == calls = None /\ LoadGame

NextRepeat == LoadGameOnce \/ RollTwice

SpecRepeat == Init /\ [][NextRepeat]_vars

----------------------------------------------------------------------------
(* train_model.py: time_based_split.  The table is carried by its          *)
(* schedule_season column; X_train and X_test by the positions of the rows *)
(* the masks keep.                                                         *)

MaxRows == 4
SplitSeasons == {2021, 2022, 2024}
TestSeasons == {1, 2}

RECURSIVE MaxOf(_)
MaxOf(S) == LET x == CHOOSE x \in S : TRUE
            IN IF S = {x} THEN x ELSE Max(x, MaxOf(S \ {x}))

\* X[mask]: the rows the mask keeps, in table order
Masked(n, mask) ==
    LET F[i \in 0..n] ==
            IF i = 0 THEN <<>> ELSE IF i \in mask THEN Append(F[i - 1], i) ELSE F[i - 1]
    IN F[n]

time_based_split(seasons, test_seasons) ==
    LET max_season == MaxOf({seasons[i] : i \in 1..Len(seasons)})
        test_season_start == max_season - test_seasons + 1
        train_mask == {i \in 1..Len(seasons) : seasons[i] < test_season_start}
        test_mask == {i \in 1..Len(seasons) : seasons[i] >= test_season_start}
    IN [seasons |-> seasons, test_seasons |-> test_seasons,
        train |-> Masked(Len(seasons), train_mask),
        test |-> Masked(Len(seasons), test_mask)]

\* the table handed to train_model has a further row
LoadSeasonRow ==
    /\ Len(season_df) < MaxRows
    /\ \E season \in SplitSeasons : season_df' = Append(season_df, season)
    /\ UNCHANGED split
    /\ UNCHANGED pipeline
    /\ UNCHANGED merging
    /\ UNCHANGED loading
    /\ UNCHANGED calls
    /\ UNCHANGED later

\* train_model calls time_based_split(X, y, df, test_seasons)
TimeBasedSplit ==
    /\ Len(season_df) > 0
    /\ \E test_seasons \in TestSeasons : split' = Some(time_based_split(season_df, test_seasons))
    /\ UNCHANGED season_df
    /\ UNCHANGED pipeline
    /\ UNCHANGED merging
    /\ UNCHANGED loading
    /\ UNCHANGED calls
    /\ UNCHANGED later

NextSplit == LoadSeasonRow \/ TimeBasedSplit

SpecSplit == Init /\ [][NextSplit]_vars

----------------------------------------------------------------------------
(* Two runs of the training path on files that differ in one game: the     *)
(* second file has the home and away sides of that game exchanged.         *)

\* played games of a primary-only file, a tie among them
PlayedOutcomes ==
    { [score_home |-> V(30), score_away |-> V(10)],
      [score_home |-> V(10), score_away |-> V(20)],
      [score_home |-> V(20), score_away |-> V(20)] }

ModernSlots == {k \in Slots : Calendar[k].schedule_season >= MODERN_START_YEAR}

BaseRows == {GameRow(k, mu, o) : k \in ModernSlots, mu \in Matchups, o \in PlayedOutcomes}

\* row i with team_home/team_away and score_home/score_away exchanged
Mirror(t, i) ==
    [t EXCEPT ![i] = [@ EXCEPT !.team_home = t[i].team_away, !.team_away = t[i].team_home,
                               !.score_home = t[i].score_away, !.score_away = t[i].score_home]]

LoadPlayedGame ==
    /\ Len(df) < MaxGames
    /\ \A i \in 1..Len(df) : df[i] \in BaseRows
    /\ \E r \in BaseRows :
          /\ \A i \in 1..Len(df) : df[i].game_id < r.game_id
          /\ Run(Append(df, r), window)

\* the pipeline runs on the file with one game mirrored
MirrorGame ==
    /\ \A i \in 1..Len(df) : df[i] \in BaseRows
    /\ \E i \in 1..Len(df) : Run(Mirror(df, i), window)

NextMirror == LoadPlayedGame \/ MirrorGame

SpecMirror == Init /\ [][NextMirror]_vars

----------------------------------------------------------------------------
(* Choice 1 of the prediction menu: interactive_predict asks for two team  *)
(* names; the encoder is the one fitted by main() on the teams of the      *)
(* table, or the one that came with a saved model.                         *)

SavedEncoders == {{"A", "B"}}

\* a query; its outcome does not depend on the queries before it, so one
\* query per session is followed
InteractivePredict ==
    /\ pred = <<>>
    /\ \E home_team \in Teams, away_team \in Teams,
          encoder \in {LabelEncoderFit(df)} \cup SavedEncoders :
          pred' = << [team_home |-> home_team, team_away |-> away_team, encoder |-> encoder,
                      input |-> create_prediction_input(home_team, away_team,
                                                        preprocess(df), encoder)] >>
    /\ UNCHANGED <<df, window, df_rolling, rolled, y>>
    /\ UNCHANGED merging
    /\ UNCHANGED splitting
    /\ UNCHANGED loading
    /\ UNCHANGED calls
    /\ UNCHANGED later

\* the table is loaded before the menu starts
LoadBeforeMenu == pred = <<>> /\ LoadPlayedGame

NextAsk == LoadBeforeMenu \/ InteractivePredict

SpecAsk == InitQuery /\ [][NextAsk]_vars

----------------------------------------------------------------------------
(* One weather reading seen by both paths: as the cells of a game row that *)
(* encode_features processes, and as the answers typed at the prompts of   *)
(* interactive_predict (an empty answer takes the default).                *)

Temperatures == {NaN, V(31), V(32), V(33), V(70), V(85), V(86)}
WindSpeeds == {NaN, V(0), V(15), V(16)}
WeatherDetails == {NaN, V(""), V("rain"), V("snow flurries")}

WeatherReading ==
    /\ weather = None
    /\ \E temp \in Temperatures, wind \in WindSpeeds, detail \in WeatherDetails :
          weather' = Some([weather_temperature |-> temp, weather_wind_mph |-> wind,
                           weather_detail |-> detail,
                           training |-> add_weather_features(
                               [weather_temperature |-> temp, weather_wind_mph |-> wind,
                                weather_detail |-> detail]),
                           query |-> prediction_weather(Get(FillNa(temp, 70)),
                                                        Get(FillNa(wind, 0)))])
    /\ UNCHANGED pipeline
    /\ UNCHANGED merging
    /\ UNCHANGED splitting
    /\ UNCHANGED loading
    /\ UNCHANGED calls
    /\ UNCHANGED main
    /\ UNCHANGED client

SpecWeather == Init /\ [][WeatherReading]_vars

----------------------------------------------------------------------------
(* main(): the training path after encode_features *)

MainGames == 2

\* 'home_rolling_epa' in df_processed.columns
HasRollingEpa(t) == \E i \in 1..Len(t) : "home_rolling_epa" \in DOMAIN t[i]

\* the step "filter to games with EPA features": X, y and df_processed are
\* indexed with the same mask has_epa
epa_filter(use_nflfastr, t) ==
    IF use_nflfastr /\ HasRollingEpa(t)
    THEN LET has_epa == {i \in 1..Len(t) : NotNa(t[i].home_rolling_epa)}
             kept == Masked(Len(t), has_epa)
         IN IF Cardinality(has_epa) > 0
            THEN [df_processed |-> [k \in 1..Len(kept) |-> t[kept[k]]],
                  printed |-> <<"Filtering to games with EPA data">>]
            ELSE [df_processed |-> t, printed |-> <<"No EPA data found">>]
    ELSE [df_processed |-> t, printed |-> <<>>]

EpaFilter ==
    /\ main.pc = "encode_features"
    /\ Len(rolled) > 0
    /\ \E use_nflfastr \in BOOLEAN :
          /\ HasNflfastr(df) => use_nflfastr
          /\ LET step == epa_filter(use_nflfastr, rolled)
             IN main' = [main EXCEPT !.pc = "train_model",
                                     !.use_nflfastr = use_nflfastr,
                                     !.df_processed = step.df_processed,
                                     !.printed = step.printed]
    /\ UNCHANGED pipeline
    /\ UNCHANGED merging
    /\ UNCHANGED splitting
    /\ UNCHANGED loading
    /\ UNCHANGED calls
    /\ UNCHANGED weather
    /\ UNCHANGED client

\* the models train_model fits: Random Forest always, the others when their
\* package imported
ModelNames(XGBOOST_AVAILABLE, LIGHTGBM_AVAILABLE) ==
    {"Random Forest"} \cup (IF XGBOOST_AVAILABLE THEN {"XGBoost"} ELSE {})
                      \cup (IF LIGHTGBM_AVAILABLE THEN {"LightGBM"} ELSE {})

\* train_model: the split it trains on and the value of its return statement;
\* best_model_name is the model of highest test accuracy
train_model(t, test_seasons, models, best_model_name) ==
    [split |-> time_based_split([i \in 1..Len(t) |-> t[i].schedule_season], test_seasons),
     returned |-> <<best_model_name, models>>]

\* the names main() assigns the returned tuple to
unpack_targets == <<"best_model", "all_models", "X_train", "X_test", "y_train", "y_test">>

\* main() from the train_model call to the prediction menu
TrainAndPredict ==
    /\ main.pc = "train_model"
    /\ \E XGBOOST_AVAILABLE \in BOOLEAN, LIGHTGBM_AVAILABLE \in BOOLEAN :
          \E best_model_name \in ModelNames(XGBOOST_AVAILABLE, LIGHTGBM_AVAILABLE) :
             LET call == train_model(main.df_processed, 2,
                                     ModelNames(XGBOOST_AVAILABLE, LIGHTGBM_AVAILABLE),
                                     best_model_name)
             IN IF Len(call.returned) # Len(unpack_targets)
                THEN main' = [main EXCEPT !.pc = "raised", !.raised = "ValueError",
                                          !.returned = Some(call.returned)]
                ELSE main' = [main EXCEPT
                        !.pc = "run_prediction_menu",
                        !.returned = Some(call.returned),
                        !.printed = main.printed \o
                            << IF Cardinality(call.returned[2]) > 1
                               THEN "Using ensemble model for predictions"
                               ELSE "Using single model for predictions",
                               "TRAINING COMPLETE!" >>]
    /\ UNCHANGED pipeline
    /\ UNCHANGED merging
    /\ UNCHANGED splitting
    /\ UNCHANGED loading
    /\ UNCHANGED calls
    /\ UNCHANGED weather
    /\ UNCHANGED client

LoadMainGame == main.pc = "encode_features" /\ Len(df) < MainGames /\ LoadGame

NextMain == LoadMainGame \/ EpaFilter \/ TrainAndPredict

SpecMain == InitQuery /\ [][NextMain]_vars

----------------------------------------------------------------------------
(* A SleeperClient in use: calls of _get_cached at increasing clock times *)

MaxCalls == 3

\* seconds between two calls
Elapsed == {1, 2, 599, 600}

\* the ttl argument: omitted, 0, or 2 seconds
TtlArgs == {None, Some(0), Some(2)}

\* what _get returns: None on a failed request, otherwise the decoded JSON
\* (an empty list among the values)
Responses == {None, Some("[]"), Some("[roster]")}

GetCached ==
    /\ client.n_calls < MaxCalls
    /\ \E r \in Requests, ttl_arg \in TtlArgs, d \in Elapsed, response \in Responses :
          LET key == CacheKey(r.endpoint, r.params)
              now == client.clock + d
              call == get_cached(client.cache, key, ttl_arg, now, response)
          IN client' =
                [cache |-> call.cache,
                 clock |-> now,
                 fetched |-> IF call.requests = 1 /\ response # None
                             THEN [client.fetched EXCEPT ![key] =
                                      Some([result |-> response, timestamp |-> now])]
                             ELSE client.fetched,
                 n_calls |-> client.n_calls + 1,
                 last |-> Some([key |-> key, ttl_arg |-> ttl_arg, now |-> now,
                                response |-> response,
                                returned |-> call.returned, requests |-> call.requests,
                                cache_before |-> client.cache,
                                fetched_before |-> client.fetched])]
    /\ UNCHANGED pipeline
    /\ UNCHANGED merging
    /\ UNCHANGED splitting
    /\ UNCHANGED loading
    /\ UNCHANGED calls
    /\ UNCHANGED weather
    /\ UNCHANGED main

SpecClient == InitQuery /\ [][GetCached]_vars

----------------------------------------------------------------------------
(* Vocabulary of the claims *)

Plays(r, team) == r.team_home = team \/ r.team_away = team

\* calendar day of a row, whatever the dtype of its date cell
DayOf(r) == DayNumber(ToDatetimeCell(r.schedule_date).v)

\* the team's games of table t dated before game g, and their rank by recency
Prior(t, team, g) == {i \in 1..Len(t) : Plays(t[i], team) /\ DayOf(t[i]) < DayOf(g)}
Recency(t, team, g, i) == Cardinality({j \in Prior(t, team, g) : DayOf(t[j]) > DayOf(t[i])})
Block(t, team, g, lo, hi) ==
    {i \in Prior(t, team, g) : Recency(t, team, g, i) >= lo /\ Recency(t, team, g, i) < hi}

\* the team's own per-game values
Scored(r, team) == IF r.team_home = team THEN r.score_home ELSE r.score_away
Allowed(r, team) == IF r.team_home = team THEN r.score_away ELSE r.score_home
WonCell(r, team) == V(IF Gt(Scored(r, team), Allowed(r, team)) THEN 1 ELSE 0)
EpaOf(r, team) == IF r.team_home = team THEN r.home_epa_per_play ELSE r.away_epa_per_play
SuccessOf(r, team) == IF r.team_home = team THEN r.home_success_rate ELSE r.away_success_rate
HasScore(r) == NotNa(r.score_home) /\ NotNa(r.score_away)

\* arithmetic mean of the cells c[i], i in I (all present), as a cell of means
MeanCell(c, I) == V((SumOver(c, I) * Scale) \div Cardinality(I))

\* the values attached to the team's slot of a row
AvgPoints(r, team) == IF r.team_home = team THEN r.home_avg_points ELSE r.away_avg_points
AvgAllowed(r, team) == IF r.team_home = team THEN r.home_avg_allowed ELSE r.away_avg_allowed
WinPct(r, team) == IF r.team_home = team THEN r.home_win_pct ELSE r.away_win_pct
Momentum(r, team) == IF r.team_home = team THEN r.home_momentum ELSE r.away_momentum
RestDays(r, team) == IF r.team_home = team THEN r.home_rest_days ELSE r.away_rest_days
RollingEpa(r, team) == IF r.team_home = team THEN r.home_rolling_epa ELSE r.away_rolling_epa
RollingSuccess(r, team) ==
    IF r.team_home = team THEN r.home_rolling_success ELSE r.away_rolling_success

Snapshot(r, team) ==
    <<AvgPoints(r, team), AvgAllowed(r, team), WinPct(r, team), Momentum(r, team),
      RestDays(r, team)>>

\* the step added games to the file, all of them games of the team dated after g
OnlyLaterGamesOf(team, g) ==
    /\ window' = window
    /\ Len(df') > Len(df)
    /\ \A k \in 1..Len(df) : df'[k] = df[k]
    /\ \A k \in (Len(df) + 1)..Len(df') : Plays(df'[k], team) /\ DayOf(df'[k]) > DayOf(g)

----------------------------------------------------------------------------
(* Claims about add_rolling_features and add_rolling_epa_features *)

\* C1: no lookahead.  Two runs whose logs differ only in games of team T dated
\* after game g attach the same rolling values to T's slot of g.
C1_NoLookahead ==
    [][\A i \in 1..Len(df_rolling), j \in 1..Len(df_rolling'), team \in Teams :
          (/\ df_rolling[i].game_id = df_rolling'[j].game_id
           /\ Plays(df_rolling[i], team)
           /\ OnlyLaterGamesOf(team, df_rolling[i]))
          => Snapshot(df_rolling'[j], team) = Snapshot(df_rolling[i], team)]_vars

\* C2: shift-then-window.  With k >= 1 prior games of the team, avg_points,
\* avg_allowed, win_pct and the rolling EPA and success values are the means of
\* the team's own values over its min(k, window) immediately preceding games.
C2_ShiftThenWindow ==
    \A i \in 1..Len(rolled), team \in Teams :
        Plays(rolled[i], team) =>
            LET W == Block(rolled, team, rolled[i], 0, window)
                pts == [k \in W |-> Scored(rolled[k], team)]
                alw == [k \in W |-> Allowed(rolled[k], team)]
                won == [k \in W |-> WonCell(rolled[k], team)]
                epa == [k \in W |-> EpaOf(rolled[k], team)]
                suc == [k \in W |-> SuccessOf(rolled[k], team)]
            IN /\ (W # {} /\ \A k \in W : HasScore(rolled[k])) =>
                    /\ AvgPoints(rolled[i], team) = MeanCell(pts, W)
                    /\ AvgAllowed(rolled[i], team) = MeanCell(alw, W)
                    /\ WinPct(rolled[i], team) = MeanCell(won, W)
               /\ (HasNflfastr(df) /\ W # {} /\ \A k \in W : NotNa(epa[k]) /\ NotNa(suc[k])) =>
                    /\ RollingEpa(rolled[i], team) = MeanCell(epa, W)
                    /\ RollingSuccess(rolled[i], team) = MeanCell(suc, W)

\* C3: chronological processing order.  The rows add_rolling_features works on
\* are in non-decreasing calendar-date order, so each team's series is.
C3_ChronologicalOrder ==
    \A i, j \in 1..Len(df_rolling), team \in Teams :
        (i < j /\ Plays(df_rolling[i], team) /\ Plays(df_rolling[j], team))
        => DayOf(df_rolling[i]) <= DayOf(df_rolling[j])

RollingCols ==
    {"home_avg_points", "away_avg_points", "home_avg_allowed", "away_avg_allowed",
     "home_win_pct", "away_win_pct", "home_rest_days", "away_rest_days",
     "home_momentum", "away_momentum",
     "avg_points_diff", "avg_allowed_diff", "win_pct_diff", "rest_days_diff", "momentum_diff"}
EpaCols ==
    {"home_rolling_epa", "away_rolling_epa", "home_rolling_success", "away_rolling_success",
     "epa_diff", "success_rate_diff"}

\* C4: coverage.  Every row of the returned tables has a value in every rolling
\* and differential column.
C4_Coverage ==
    /\ \A i \in 1..Len(df_rolling), c \in RollingCols : NotNa(df_rolling[i][c])
    /\ \A i \in 1..Len(rolled), c \in RollingCols : NotNa(rolled[i][c])
    /\ HasNflfastr(df) => \A i \in 1..Len(rolled), c \in EpaCols : NotNa(rolled[i][c])

\* C4 witness: a team's first game, next to a game whose team has only unplayed
\* prior games, all cells filled.
C4_Witness ==
    /\ C4_Coverage
    /\ HasNflfastr(df)
    /\ \E i, j \in 1..Len(rolled), team \in Teams :
          /\ Plays(rolled[i], team) /\ Prior(rolled, team, rolled[i]) = {}
          /\ Plays(rolled[j], team) /\ Prior(rolled, team, rolled[j]) # {}
          /\ \A k \in Prior(rolled, team, rolled[j]) : ~HasScore(rolled[k])
          /\ AvgPoints(rolled[j], team) = V(21 * Scale)
          /\ RollingEpa(rolled[j], team) = V(0)

\* C5: momentum is the mean over the window most recent prior games minus the
\* mean over the window games before them when k >= 2*window + 1, and 0 below.
C5_Momentum ==
    \A i \in 1..Len(df_rolling), team \in Teams :
        Plays(df_rolling[i], team) =>
            LET t == df_rolling
                k == Cardinality(Prior(t, team, t[i]))
                R == Block(t, team, t[i], 0, window)
                O == Block(t, team, t[i], window, 2 * window)
                pts == [n \in R \cup O |-> Scored(t[n], team)]
            IN IF k >= 2 * window + 1
               THEN (\A n \in R \cup O : HasScore(t[n])) =>
                        Momentum(t[i], team) = Sub(MeanCell(pts, R), MeanCell(pts, O))
               ELSE Momentum(t[i], team) = V(0)

----------------------------------------------------------------------------
(* Claims about preprocess and the label vector *)

\* C6: home_team_won is a 0/1 label only for games with both scores; no game
\* with a missing score is in the label vector y as an away win (0).
C6_LabelOnlyForPlayed ==
    \A i \in 1..Len(y) : HasScore(rolled[i])

----------------------------------------------------------------------------
(* Claims about merge_with_spreadspoke *)

MergeReturned == merged # None /\ merged[1].raised = ""

\* two games of the secondary table share (season, week, home_team, away_team)
SameKey(a, b) ==
    /\ a[ColAt(nflfastr_stats, <<"season">>)] = b[ColAt(nflfastr_stats, <<"season">>)]
    /\ a[ColAt(nflfastr_stats, <<"week">>)] = b[ColAt(nflfastr_stats, <<"week">>)]
    /\ a[ColAt(nflfastr_stats, <<"home", "team">>)] = b[ColAt(nflfastr_stats, <<"home", "team">>)]
    /\ a[ColAt(nflfastr_stats, <<"away", "team">>)] = b[ColAt(nflfastr_stats, <<"away", "team">>)]

DuplicateKey ==
    \E i, j \in 1..Len(nflfastr_stats.rows) :
        /\ nflfastr_stats.rows[i][ColAt(nflfastr_stats, <<"game", "id">>)] #
               nflfastr_stats.rows[j][ColAt(nflfastr_stats, <<"game", "id">>)]
        /\ SameKey(nflfastr_stats.rows[i], nflfastr_stats.rows[j])

\* C7: row-count law.  Every call of merge_with_spreadspoke returns a table
\* with exactly as many rows as the primary table.
C7_RowCountLaw ==
    merged # None =>
        /\ merged[1].raised = ""
        /\ Len(merged[1].table.rows) = Len(spreadspoke_df.rows)

----------------------------------------------------------------------------
(* Claims about the point-in-time query *)

RowOf(t, id) == t[CHOOSE i \in 1..Len(t) : t[i].game_id = id]
IdsAt(t, I) == {t[i].game_id : i \in I}
Range(s) == {s[i] : i \in 1..Len(s)}

\* C9: the statistics of each team of a predicted game are taken from the
\* team's n_games most recent games dated strictly before that game.
C9_QueryUsesOnlyPast ==
    \A p \in 1..Len(pred) :
        pred[p].input.raised = "" =>
            /\ Range(pred[p].input.home_stats.recent) =
                   IdsAt(df, Block(df, pred[p].team_home, pred[p], 0, N_GAMES))
            /\ Range(pred[p].input.away_stats.recent) =
                   IdsAt(df, Block(df, pred[p].team_away, pred[p], 0, N_GAMES))

\* C10: for a team whose games all have scores and lie in modern seasons, the
\* query's avg_points, avg_allowed and win_pct are the values the aggregator
\* (window 3) attaches to the team for a further game after all of its games.
C10_QueryMatchesAggregator ==
    [][\A team \in Teams :
          (/\ Len(df') = Len(df) + 1
           /\ SubSeq(df', 1, Len(df)) = df
           /\ window' = N_GAMES
           /\ Plays(df'[Len(df')], team)
           /\ IsModern(df'[Len(df')])
           /\ \E i \in 1..Len(df) : Plays(df[i], team)
           /\ \A i \in 1..Len(df) :
                 Plays(df[i], team) =>
                    /\ HasScore(df[i])
                    /\ IsModern(df[i])
                    /\ DayOf(df[i]) < DayOf(df'[Len(df')]))
          => LET q == get_team_recent_stats(preprocess(df), team, N_GAMES)[1]
                 r == RowOf(df_rolling', df'[Len(df')].game_id)
             IN /\ AvgPoints(r, team) = q.avg_points
                /\ AvgAllowed(r, team) = q.avg_allowed
                /\ WinPct(r, team) = q.win_pct]_vars

----------------------------------------------------------------------------
(* Claims about the shape of the query vector *)

\* C11: the row create_prediction_input returns has the column names of the
\* training matrix X, in the same order, with and without nflfastR columns.
C11_QueryVectorShape ==
    \A p \in 1..Len(pred) :
        pred[p].input.raised = "" => pred[p].input.columns = feature_cols(df)

----------------------------------------------------------------------------
(* Claims about mirrored games *)

Neg(c) == IF IsNa(c) THEN NaN ELSE V(0 - Get(c))

DiffCols ==
    {"avg_points_diff", "avg_allowed_diff", "win_pct_diff", "rest_days_diff", "momentum_diff"}

\* the step reran the pipeline with game i mirrored
Mirrored(i) == i \in 1..Len(df) /\ df' = Mirror(df, i) /\ df' # df

\* C12: differential symmetry.  Mirroring a game negates each of its
\* differential features and complements its label, whatever the scores.
C12_DifferentialSymmetry ==
    [][\A i \in 1..Len(df) :
          Mirrored(i) =>
              LET a == RowOf(df_rolling, df[i].game_id)
                  b == RowOf(df_rolling', df[i].game_id)
              IN /\ \A c \in DiffCols : b[c] = Neg(a[c])
                 /\ b.home_team_won = 1 - a.home_team_won]_vars

----------------------------------------------------------------------------
(* Further claims about merge_with_spreadspoke *)

PrimaryCell(row, label) == row[ColAt(spreadspoke_df, label)]

\* a team-game row of the secondary table carries the key of a primary row
Counterpart(prow, srow) ==
    /\ V(Get(PrimaryCell(prow, <<"schedule", "season">>))) =
           srow[ColAt(nflfastr_stats, <<"season">>)]
    /\ PrimaryCell(prow, <<"schedule", "week">>) =
           AsTypeStr(srow[ColAt(nflfastr_stats, <<"week">>)])
    /\ PrimaryCell(prow, <<"team", "home">>) = srow[ColAt(nflfastr_stats, <<"home", "team">>)]
    /\ PrimaryCell(prow, <<"team", "away">>) = srow[ColAt(nflfastr_stats, <<"away", "team">>)]

HasCounterpart(prow) ==
    \E j \in 1..Len(nflfastr_stats.rows) : Counterpart(prow, nflfastr_stats.rows[j])

\* row mrow of the merged table carries the primary values of prow
KeepsPrimary(mrow, prow) ==
    \A c \in 1..Len(spreadspoke_df.columns) :
        /\ HasCol(merged[1].table, spreadspoke_df.columns[c])
        /\ mrow[ColAt(merged[1].table, spreadspoke_df.columns[c])] = prow[c]

SecondaryNull(mrow) ==
    \A c \in 1..Len(merged[1].table.columns) :
        (\A d \in 1..Len(spreadspoke_df.columns) :
            spreadspoke_df.columns[d] # merged[1].table.columns[c]) => IsNa(mrow[c])

\* C13: left-join preservation.  After a call of merge_with_spreadspoke every
\* row of the primary table is in the returned table with its primary values
\* unchanged, and a primary row without counterpart in the secondary table is
\* there with every secondary column null.
C13_LeftJoinPreservation ==
    merged # None =>
        \A i \in 1..Len(spreadspoke_df.rows) :
            /\ merged[1].raised = ""
            /\ \E j \in 1..Len(merged[1].table.rows) :
                  /\ KeepsPrimary(merged[1].table.rows[j], spreadspoke_df.rows[i])
                  /\ ~HasCounterpart(spreadspoke_df.rows[i])
                        => SecondaryNull(merged[1].table.rows[j])

MatchedPrimary == {i \in 1..Len(spreadspoke_df.rows) : HasCounterpart(spreadspoke_df.rows[i])}

\* C19: match-rate report.  A call of merge_with_spreadspoke on a primary table
\* with rows reports n_matched/n_total equal to the number of primary rows
\* whose key has a row in the secondary table divided by the number of primary
\* rows, also when the secondary table has one team only of a game.
C19_MatchRate ==
    (merged # None /\ Len(spreadspoke_df.rows) > 0) =>
        /\ merged[1].raised = ""
        /\ Len(merged[1].table.rows) > 0
        /\ merged[1].n_matched * Len(spreadspoke_df.rows) =
               Cardinality(MatchedPrimary) * Len(merged[1].table.rows)

----------------------------------------------------------------------------
(* Claims about load_data_with_nflfastr and aggregate_team_stats *)

\* C14: graceful degradation.  When the download, the aggregation or the merge
\* raised inside load_data_with_nflfastr, the call raises nothing, returns the
\* primary table as it was loaded (same rows, no secondary column) and a match
\* rate of 0% is reported.
C14_GracefulDegradation ==
    (loaded # None /\ loaded[1].caught # "") =>
        /\ loaded[1].raised = ""
        /\ loaded[1].table = spreadspoke_df
        /\ \E r \in Range(loaded[1].reports) : r[1] = 0

----------------------------------------------------------------------------
(* Claims about repeated calls and about a team's first game *)

C16_FirstGameDefaults ==
    \A i \in 1..Len(df_rolling) :
        \A team \in {df_rolling[i].team_home, df_rolling[i].team_away} :
            Prior(df_rolling, team, df_rolling[i]) = {} =>
                /\ RestDays(df_rolling[i], team) = V(7)
                /\ WinPct(df_rolling[i], team) = V(Scale \div 2)
                /\ AvgPoints(df_rolling[i], team) = V(21 * Scale)
                /\ AvgAllowed(df_rolling[i], team) = V(21 * Scale)
                /\ Momentum(df_rolling[i], team) = V(0)

----------------------------------------------------------------------------
(* Claims about the interactive query *)

HasGame(t, team) == \E i \in 1..Len(t) : Plays(t[i], team)

\* the team has a game in the table and is a class of the encoder
Known(q, team) == HasGame(df, team) /\ team \in q.encoder

\* C17: query failure on unknown or history-less teams.  A call of
\* create_prediction_input in which the home or the away team has no game in
\* the table, or is not a class of the encoder, raises the error and returns
\* no vector; a call that returns a vector has both teams with history and
\* recognized.
C17_QueryFailure ==
    \A p \in 1..Len(pred) :
        /\ ~(Known(pred[p], pred[p].team_home) /\ Known(pred[p], pred[p].team_away)) =>
              /\ pred[p].input.raised = "ValueError"
              /\ "columns" \notin DOMAIN pred[p].input
        /\ pred[p].input.raised = "" =>
              Known(pred[p], pred[p].team_home) /\ Known(pred[p], pred[p].team_away)

\* C17 witness: a query for two teams that both have games in the table, one
\* of them not a class of the encoder, ended with the error
C17_Witness ==
    \E p \in 1..Len(pred) :
        /\ HasGame(df, pred[p].team_home)
        /\ HasGame(df, pred[p].team_away)
        /\ pred[p].team_home \notin pred[p].encoder
        /\ pred[p].input.raised = "ValueError"

----------------------------------------------------------------------------
(* Claims about time_based_split *)

SeasonsPresent(q) == {q.seasons[i] : i \in 1..Len(q.seasons)}

\* the n most recent seasons that occur in the table
MostRecentSeasons(q) ==
    {x \in SeasonsPresent(q) : Cardinality({z \in SeasonsPresent(q) : z > x}) < q.test_seasons}

\* C18: time-based split.  The rows are partitioned into train and test, every
\* training row's season is below every test row's season, and the test rows
\* are exactly the rows of the test_seasons most recent seasons occurring in
\* the table.
C18_TimeBasedSplit ==
    split # None =>
        LET q == split[1]
        IN /\ Range(q.train) \cup Range(q.test) = 1..Len(q.seasons)
           /\ Range(q.train) \cap Range(q.test) = {}
           /\ \A i \in Range(q.train), j \in Range(q.test) : q.seasons[i] < q.seasons[j]
           /\ Range(q.test) = {i \in 1..Len(q.seasons) : q.seasons[i] \in MostRecentSeasons(q)}

----------------------------------------------------------------------------
(* Claims about aggregate_team_stats *)

RetainedPlays == {i \in 1..Len(pbp_data) : RetainedPlay(pbp_data[i])}

\* the (game_id, team) pairs of the teams on either side of a retained play
Participants ==
    {<<pbp_data[i].game_id, pbp_data[i].posteam>> : i \in RetainedPlays}
        \cup {<<pbp_data[i].game_id, pbp_data[i].defteam>> : i \in RetainedPlays}

StatsKey(t, i) ==
    << Get(t.rows[i][ColAt(t, <<"game", "id">>)]), Get(t.rows[i][ColAt(t, <<"team">>)]) >>

\* C20: one efficiency row per game and participant.  The table returned by
\* aggregate_team_stats has a row for (game_id, team) exactly when the team was
\* on offense or on defense in a retained run/pass play of the game, and no
\* two rows have the same (game_id, team).
C20_OneRowPerParticipant ==
    team_stats # None =>
        LET t == team_stats[1]
        IN /\ {StatsKey(t, i) : i \in 1..Len(t.rows)} = Participants
           /\ \A i, j \in 1..Len(t.rows) : StatsKey(t, i) = StatsKey(t, j) => i = j

----------------------------------------------------------------------------
(* Claims about identifiers the team-name map lacks *)

StatsCell(srow, label) == srow[ColAt(nflfastr_stats, label)]

\* a secondary row one of whose three abbreviations the map did not have
\* (the call has replaced it by NaN)
Unmapped(srow) ==
    \/ IsNa(StatsCell(srow, <<"team">>))
    \/ IsNa(StatsCell(srow, <<"home", "team">>))
    \/ IsNa(StatsCell(srow, <<"away", "team">>))

UnmappedRows == {j \in 1..Len(nflfastr_stats.rows) : Unmapped(nflfastr_stats.rows[j])}

\* the statistic of secondary row srow stands in a cell of merged row mrow
Contributes(srow, mrow) ==
    \E c \in 1..Len(merged[1].table.columns) :
        /\ merged[1].table.columns[c] \in
               {<<"home", "epa", "per", "play">>, <<"away", "epa", "per", "play">>}
        /\ mrow[c] = StatsCell(srow, <<"epa", "per", "play">>)

\* C21: unmapped identifiers.  After a call of merge_with_spreadspoke on a
\* secondary table with a row whose team, home_team or away_team is not in the
\* map, a table is returned in which no such row contributes a value, and the
\* count of the rows dropped for this reason is among the counts reported.
C21_UnmappedDropped ==
    (merged # None /\ UnmappedRows # {} /\ Len(spreadspoke_df.rows) > 0) =>
        /\ merged[1].raised = ""
        /\ \A j \in UnmappedRows : \A i \in 1..Len(merged[1].table.rows) :
              ~Contributes(nflfastr_stats.rows[j], merged[1].table.rows[i])
        /\ "n_dropped" \in Range(merged[1].printed)

----------------------------------------------------------------------------
(* Claims about rest days *)

\* the latest calendar day of a game of the team before game g
PrecedingDay(t, team, g) == MaxOf({DayOf(t[j]) : j \in Prior(t, team, g)})

\* C22: rest days.  For every game of a team that an earlier game of the team
\* precedes, the attached rest_days is the number of calendar days since the
\* team's immediately preceding game, and it is not negative.
C22_RestDays ==
    \A i \in 1..Len(df_rolling) :
        \A team \in {df_rolling[i].team_home, df_rolling[i].team_away} :
            Prior(df_rolling, team, df_rolling[i]) # {} =>
                /\ RestDays(df_rolling[i], team) =
                       V(DayOf(df_rolling[i]) - PrecedingDay(df_rolling, team, df_rolling[i]))
                /\ Get(RestDays(df_rolling[i], team)) >= 0

----------------------------------------------------------------------------
(* Claims about the per-team loop *)

HomeCells == {"home_avg_points", "home_avg_allowed", "home_win_pct", "home_rest_days",
              "home_momentum"}
AwayCells == {"away_avg_points", "away_avg_allowed", "away_win_pct", "away_rest_days",
              "away_momentum"}

\* the columns the iteration for team may write in row r
OwnCells(r, team) ==
    (IF r.team_home = team THEN HomeCells ELSE {}) \cup
    (IF r.team_away = team THEN AwayCells ELSE {})

\* every order in which the teams can be processed
TeamOrders(teams) ==
    {p \in [1..Len(teams) -> Range(teams)] : \A a, b \in 1..Len(teams) : p[a] = p[b] => a = b}

\* the iteration that turned before into after wrote own cells of team only
WroteOwnCellsOnly(before, after, team) ==
    \A i \in 1..Len(before) :
        \A c \in (DOMAIN before[i]) \ OwnCells(before[i], team) : after[i][c] = before[i][c]

\* the table returned when the loop over start runs in the given order
ReturnedFor(start, order, w) == DiffFeatures(FillRolling(RollingLoop(start, order, w)))

\* (each table is bound once, as a value, before its cells are compared)
IndependentOfOrder(input, w, returned) ==
    \A start \in {input} :
        /\ \A team \in Range(TeamsOf(start)) :
              \A after \in {RollingIteration(start, team, w)} :
                  WroteOwnCellsOnly(start, after, team)
        /\ \A order \in TeamOrders(TeamsOf(start)) : ReturnedFor(start, order, w) = returned

\* C23: per-team independence.  The iteration for a team leaves every cell
\* other than the home_* cells of its home rows and the away_* cells of its
\* away rows as it found it, and the table add_rolling_features returns is the
\* same for every order in which the teams are processed.
C23_PerTeamIndependence ==
    IndependentOfOrder(RollingInput(preprocess(df)), window, df_rolling)

\* C23 witness: a table of three teams, one of them at home in one game and
\* away in another, in which a team has values computed from an earlier game
C23_Witness ==
    /\ Len(TeamsOf(RollingInput(preprocess(df)))) = 3
    /\ \E i, j \in 1..Len(df_rolling) :
          /\ df_rolling[i].team_home = df_rolling[j].team_away
          /\ df_rolling[i].home_win_pct # V(Scale \div 2)

----------------------------------------------------------------------------
(* Claims about repeated calls and the prediction query *)

\* C24: merge does not consume its inputs.  A call of merge_with_spreadspoke
\* leaves the primary table and the aggregated secondary table as they were,
\* and a second call with the same two tables returns what the first returned
\* (the merged table and the match count).
C24_InputsUnchanged ==
    [][(merged = None /\ merged' # None) =>
          /\ spreadspoke_df' = spreadspoke_df
          /\ nflfastr_stats' = nflfastr_stats
          /\ merge_with_spreadspoke(spreadspoke_df', nflfastr_stats') = merged'[1]]_vars

\* the team's k-th most recent game of table t by calendar day (k = 1: the latest)
GamesOf(t, team) == {i \in 1..Len(t) : Plays(t[i], team)}
KthLatest(t, team, k) ==
    t[CHOOSE i \in GamesOf(t, team) :
          Cardinality({j \in GamesOf(t, team) : DayOf(t[j]) > DayOf(t[i])}) = k - 1]

\* points of the two latest and of the two earliest of the team's last three games
RecentScoring(t, team) ==
    NpMean(<<Scored(KthLatest(t, team, 1), team), Scored(KthLatest(t, team, 2), team)>>)
OlderScoring(t, team) ==
    NpMean(<<Scored(KthLatest(t, team, 2), team), Scored(KthLatest(t, team, 3), team)>>)

\* C25: momentum sign in the query.  For a team with three or more games the
\* momentum of get_team_recent_stats is the mean of the more recent games
\* minus the mean of the older games, positive exactly when recent scoring is
\* the higher, as in add_rolling_features.
C25_MomentumSign ==
    \A p \in 1..Len(pred) :
        (pred[p].input.raised = "" /\ Cardinality(GamesOf(df, pred[p].team_home)) >= 3) =>
            LET team == pred[p].team_home
                momentum == pred[p].input.home_stats.momentum
            IN /\ momentum = Sub(RecentScoring(df, team), OlderScoring(df, team))
               /\ Get(momentum) > 0 <=>
                     Get(RecentScoring(df, team)) > Get(OlderScoring(df, team))

----------------------------------------------------------------------------
(* Claims about weather flags *)

WeatherFlags == {"extreme_cold", "extreme_heat", "high_wind", "bad_weather"}

\* C26: weather flag consistency.  For every temperature and wind value of a
\* game without precipitation text, the flags extreme_cold, extreme_heat,
\* high_wind and bad_weather of create_prediction_input equal those of
\* add_weather_features.
C26_WeatherFlagConsistency ==
    (weather # None /\ weather[1].weather_detail \in {NaN, V("")}) =>
        \A flag \in WeatherFlags : weather[1].query[flag] = weather[1].training[flag]

----------------------------------------------------------------------------
(* Claims about main() *)

\* the game matched a row of the secondary source in the merge
MatchedNflfastr(r) == "home_epa_per_play" \in DOMAIN r /\ NotNa(r.home_epa_per_play)

\* the filter step of main() ran on the table
FilterStepRan ==
    main.pc # "encode_features" /\ main.use_nflfastr /\ HasRollingEpa(rolled)

\* C27: EPA filter in main.  After the step that filters to games with EPA
\* data, every retained game matched nflfastR data in the merge and every
\* game without a match has been removed.
C27_EpaFilter ==
    FilterStepRan =>
        /\ \A k \in 1..Len(main.df_processed) : MatchedNflfastr(main.df_processed[k])
        /\ \A i \in 1..Len(rolled) :
              ~MatchedNflfastr(rolled[i]) =>
                  \A k \in 1..Len(main.df_processed) :
                      main.df_processed[k].game_id # rolled[i].game_id

\* C29: the training path completes.  Once train_model has trained at least
\* one model and returned, the returned tuple has exactly the components
\* main unpacks, and control reaches 'TRAINING COMPLETE' and the prediction
\* menu.
C29_TrainingCompletes ==
    main.returned # None =>
        /\ Len(main.returned[1]) = Len(unpack_targets)
        /\ "TRAINING COMPLETE!" \in Range(main.printed)
        /\ main.pc = "run_prediction_menu"

----------------------------------------------------------------------------
(* Claims about unplayed games *)

\* the games with both scores among the team's window of games before game g
PlayedBefore(t, team, g, w) == {j \in Block(t, team, g, 0, w) : HasScore(t[j])}

\* the mean of the team's values over the set I of rows, or the fill when I is empty
MeanOrFill(t, team, I, Value(_, _), fill) ==
    IF I = {} THEN V(fill)
    ELSE V((SumOver([j \in 1..Len(t) |-> Value(t[j], team)], I) * Scale) \div Cardinality(I))

\* C28: unplayed games are neutral.  A prior game of a team whose score is
\* missing is skipped in avg_points, avg_allowed and win_pct alike: each is the
\* mean over the played games of the window (the fill when there is none), so
\* the unplayed game is not counted as a loss.
C28_UnplayedNeutral ==
    \A i \in 1..Len(df_rolling) :
        \A team \in {df_rolling[i].team_home, df_rolling[i].team_away} :
            LET g == df_rolling[i]
                played == PlayedBefore(df_rolling, team, g, window)
            IN (\E j \in Block(df_rolling, team, g, 0, window) : ~HasScore(df_rolling[j])) =>
                  /\ AvgPoints(g, team) = MeanOrFill(df_rolling, team, played, Scored, 21 * Scale)
                  /\ AvgAllowed(g, team) = MeanOrFill(df_rolling, team, played, Allowed, 21 * Scale)
                  /\ WinPct(g, team) =
                        IF played = {} THEN V(Scale \div 2)
                        ELSE MeanOrFill(df_rolling, team, played, WonCell, 0)

----------------------------------------------------------------------------
(* Claims about the SleeperClient cache *)

\* the ttl a call works with: the argument, or default_ttl when it is omitted or 0
TtlOf(call) ==
    IF call.ttl_arg = None \/ call.ttl_arg = Some(0) THEN default_ttl ELSE call.ttl_arg[1]

\* the call came less than its ttl after the last successful fetch of its key
Fresh(call) ==
    /\ call.fetched_before[call.key] # None
    /\ call.now - call.fetched_before[call.key][1].timestamp < TtlOf(call)

\* C30: read-through cache.  After any sequence of _get_cached calls, a call
\* made less than ttl seconds after the last successful fetch of its key
\* returns the result of that fetch without an HTTP request; a call with no
\* entry or an expired entry issues exactly one request; a failed request
\* leaves the cache as it was.
C30_ReadThroughCache ==
    client.last # None =>
        LET call == client.last[1]
        IN /\ Fresh(call) =>
                 /\ call.requests = 0
                 /\ call.returned = call.fetched_before[call.key][1].result
                 /\ client.cache = call.cache_before
           /\ ~Fresh(call) => call.requests = 1 /\ call.returned = call.response
           /\ (call.requests = 1 /\ call.response = None) =>
                 client.cache = call.cache_before
           /\ \A key \in CacheKeys : client.cache[key] = client.fetched[key]

\* C30 witness: a third call that is served from the cache 599 seconds or more
\* after the fetch of an empty list, while the other key has no entry
C30_Witness ==
    /\ client.n_calls = 3
    /\ client.last[1].requests = 0
    /\ client.last[1].now - client.fetched[client.last[1].key][1].timestamp >= 599
    /\ client.last[1].returned = Some("[]")
    /\ \E key \in CacheKeys : client.cache[key] = None

====
